---- MODULE Spec2Model ----
(***************************************************************************)
(* Model of the answer-evaluation engine of the interview backend          *)
(* (src/evaluator.py): AnswerEvaluator.evaluate_answer with its parser and  *)
(* keyword-matching fallback, the evaluation history it owns and the        *)
(* summary computed from it; of the /api endpoints that use the evaluator   *)
(* (src/server.py); of the interview tracker and the data-channel senders   *)
(* (src/livekit_utils.py); of the transcript buffer and its save            *)
(* (src/transcript_saver.py); and of the interview agent (src/agent.py):    *)
(* the start of a session, answer and question handling, the end of the     *)
(* interview.                                                               *)
(*                                                                         *)
(* Conventions.                                                            *)
(*   - A Python str whose characters matter (answers, keywords) is a        *)
(*     sequence of one-character strings; lower(), strip() and the `in`     *)
(*     substring test are computed on those sequences.                      *)
(*   - A score is held in tenths: the Python value 6.7 is the integer 67.   *)
(*   - A percentage rounded to one decimal (average_score, the metrics)     *)
(*     is held in tenths as well: 79.9 is the integer 799.                  *)
(*   - A dict is a function on its keys; an absent key is absent from       *)
(*     DOMAIN.                                                              *)
(*   - A JSON number, string, null ... read from the model's output keeps   *)
(*     its type as a tag: [t |-> "num", n |-> 85] is 8.5.                   *)
(***************************************************************************)
EXTENDS Integers, Sequences, FiniteSets, TLC

VARIABLES
    evaluation_history, \* AnswerEvaluator.evaluation_history
    pc,                 \* "idle", or "awaiting": evaluate_answer suspended in _call_openai
    call,               \* arguments of the current (or last) evaluate_answer call
    response,           \* what _call_openai gave the current (or last) call
    ret,                \* how the last evaluate_answer call ended
    started,            \* evaluate_answer calls begun
    completed,          \* evaluate_answer calls ended
    clock,              \* datetime.now()
    summaries,          \* what calculate_overall_performance returned, call by call
    room_id,            \* server: room_id of the /api/evaluate-answer request in progress
    http_response,      \* server: the last response sent by one of the /api endpoints
    tasks,              \* agent: the _handle_user_answer tasks created so far
    last_question,      \* agent: InterviewAgent.last_question
    question_count,     \* agent: InterviewAgent.question_count
    responses,          \* agent: InterviewData.responses
    tracker,            \* the session's InterviewTracker
    question_num,       \* what the last add_question call returned
    current_stats,      \* what the last get_current_stats call returned
    transcript_ref,     \* what the last get_transcript call returned
    published,          \* agent: the messages published on the room's data channel
    transcript_buffer,  \* transcript_saver.transcript_buffer
    monitor,            \* agent: where monitor_interview is, and what it computed
    session,            \* agent: how entrypoint's reading of the metadata ended
    posted,             \* transcript_saver: the payload of the last requests.post
    candidate_details_store,   \* server: room -> candidate details, or none stored
    candidate_details_events,  \* server: room -> the asyncio.Event waited on, 0 if none
    events,             \* server: is_set() of every asyncio.Event created so far
    token_requests,     \* server: the /token requests received and how each one stands
    interview_started,  \* agent: InterviewData.interview_started
    greeting_sent,      \* agent: InterviewAgent.greeting_sent
    greetings,          \* agent: the calls of session.generate_reply made to greet
    on_enter,           \* agent: the calls of on_enter and where each one stands
    waiting_for_answer  \* agent: InterviewAgent.waiting_for_answer

evaluatorVars == <<evaluation_history, pc, call, response, ret, started, completed, clock>>

tokenVars ==
    <<candidate_details_store, candidate_details_events, events, token_requests>>
serverVars == <<room_id, http_response, tokenVars>>

trackerVars == <<tracker, question_num, current_stats, transcript_ref>>

lifecycleVars == <<interview_started, greeting_sent, greetings, on_enter>>

agentVars == <<tasks, last_question, question_count, responses,
               tracker, question_num, current_stats, transcript_ref,
               published, transcript_buffer, monitor, session, posted,
               lifecycleVars, waiting_for_answer>>

vars == <<evaluation_history, pc, call, response, ret, started, completed, clock,
          summaries, room_id, http_response, tasks, last_question, question_count,
          responses, tracker, question_num, current_stats, transcript_ref,
          published, transcript_buffer, monitor, session, posted,
          candidate_details_store, candidate_details_events, events, token_requests,
          interview_started, greeting_sent, greetings, on_enter, waiting_for_answer>>

\* Bound: evaluate_answer calls made on one evaluator.
MaxCalls == 2

(***************************************************************************)
(* Python strings                                                          *)
(***************************************************************************)

UpperToLower ==
    ("A" :> "a") @@ ("B" :> "b") @@ ("C" :> "c") @@ ("D" :> "d") @@ ("E" :> "e") @@
    ("F" :> "f") @@ ("G" :> "g") @@ ("H" :> "h") @@ ("I" :> "i") @@ ("J" :> "j") @@
    ("K" :> "k") @@ ("L" :> "l") @@ ("M" :> "m") @@ ("N" :> "n") @@ ("O" :> "o") @@
    ("P" :> "p") @@ ("Q" :> "q") @@ ("R" :> "r") @@ ("S" :> "s") @@ ("T" :> "t") @@
    ("U" :> "u") @@ ("V" :> "v") @@ ("W" :> "w") @@ ("X" :> "x") @@ ("Y" :> "y") @@
    ("Z" :> "z")

\* str.lower()
Lower(s) ==
    [i \in 1..Len(s) |-> IF s[i] \in DOMAIN UpperToLower THEN UpperToLower[s[i]] ELSE s[i]]

Whitespace == {" ", "\t", "\n", "\r"}

RECURSIVE LStrip(_)
LStrip(s) ==
    IF s # <<>> /\ Head(s) \in Whitespace THEN LStrip(Tail(s)) ELSE s

RECURSIVE RStrip(_)
RStrip(s) ==
    IF s # <<>> /\ s[Len(s)] \in Whitespace THEN RStrip(SubSeq(s, 1, Len(s) - 1)) ELSE s

\* str.strip()
Strip(s) == RStrip(LStrip(s))

\* `sub in s` on two str
Contains(sub, s) ==
    \E i \in 0..(Len(s) - Len(sub)) : SubSeq(s, i + 1, i + Len(sub)) = sub

\* c repeated n times
Rep(c, n) == [i \in 1..n |-> c]

(***************************************************************************)
(* Inputs of evaluate_answer                                               *)
(***************************************************************************)

ACID == <<"A", "C", "I", "D">>
scalability == <<"s", "c", "a", "l", "a", "b", "i", "l", "i", "t", "y">>
index == <<"i", "n", "d", "e", "x">>

\* expected_keywords: Optional[List[str]]
NoneKeywords == [none |-> TRUE, items |-> <<>>]
List(items) == [none |-> FALSE, items |-> items]

KeywordLists ==
    { NoneKeywords, List(<<>>), List(<<ACID, scalability>>),
      List(<<ACID, scalability, index>>) }

\* "acid": a short answer naming one keyword in another case
AnswerAcid == <<"a", "c", "i", "d">>
\* "Acid SCALABILITY wins!": 22 characters, two keywords in other cases
AnswerBoth ==
    <<"A", "c", "i", "d", " ">> \o
    <<"S", "C", "A", "L", "A", "B", "I", "L", "I", "T", "Y">> \o
    <<" ", "w", "i", "n", "s", "!">>
\* 20 characters between leading and trailing whitespace: 24 before strip()
AnswerPadded == <<" ", "\t">> \o Rep("x", 20) \o <<" ", "\n">>

Answers == { <<>>, AnswerAcid, AnswerBoth, AnswerPadded }

Questions == { "Q1" }

DifficultyLevels == { "medium", "hard" }

NoCall ==
    [question |-> "", answer |-> <<>>, expected_keywords |-> NoneKeywords,
     difficulty_level |-> "medium"]

Calls ==
    [question : Questions, answer : Answers, expected_keywords : KeywordLists,
     difficulty_level : DifficultyLevels]

(***************************************************************************)
(* What _call_openai gives back                                            *)
(***************************************************************************)

\* JSON scalars as json.loads reads them (NaN and Infinity are accepted).
Num(n) == [t |-> "num", n |-> n]
JNaN == [t |-> "nan", n |-> 0]
JNull == [t |-> "null", n |-> 0]
JString == [t |-> "str", n |-> 0]

\* A complete, well-formed evaluation: 8.5, correct.
ObjectGood ==
    [is_correct |-> TRUE, is_partial |-> FALSE, score |-> Num(85),
     evaluation |-> [accuracy |-> 90, completeness |-> 80, relevance |-> 85,
                     confidence |-> "high"],
     feedback |-> "Good answer",
     keywords_matched |-> <<ACID>>, keywords_missed |-> <<scalability>>,
     strengths |-> <<"Clear">>, improvements |-> <<>>,
     technical_depth |-> 80, communication_quality |-> 75]
\* {}
ObjectEmpty == <<>>
\* {"is_correct": true, "is_partial": true, "score": 15}
ObjectAbove == [is_correct |-> TRUE, is_partial |-> TRUE, score |-> Num(150)]
\* {"is_correct": true, "score": -3}
ObjectBelow == [is_correct |-> TRUE, score |-> Num(-30)]
\* {"score": NaN}
ObjectNaN == [score |-> JNaN]
\* {"score": "8"}
ObjectStringScore == [score |-> JString]
\* {"score": null, "feedback": "n/a"}
ObjectNullScore == [score |-> JNull, feedback |-> "n/a"]
\* {"is_partial": true, "score": 6, "fallback": true}: a key outside the schema
ObjectExtraKey == [is_partial |-> TRUE, score |-> Num(60), fallback |-> TRUE]

Objects ==
    { ObjectGood, ObjectEmpty, ObjectAbove, ObjectBelow, ObjectNaN, ObjectStringScore,
      ObjectNullScore, ObjectExtraKey }

\* message.content: text that is no JSON, a JSON value that is no object, None,
\* or a JSON object.
Contents ==
    { [t |-> "invalid"], [t |-> "list"], [t |-> "number"], [t |-> "string"],
      [t |-> "null"], [t |-> "None"] }
    \cup { [t |-> "object", obj |-> o] : o \in Objects }

\* _call_openai ends by re-raising the API's exception or by returning the content.
ModelOutcomes ==
    { [kind |-> "raise", exc |-> "APIError"] }
    \cup { [kind |-> "return", content |-> c] : c \in Contents }

NoResponse == [kind |-> "none"]

(***************************************************************************)
(* Results of a step that may raise                                        *)
(***************************************************************************)

Return(v) == [raised |-> FALSE, value |-> v]
Raise(e) == [raised |-> TRUE, exc |-> e]

Exceptions == { "APIError", "JSONDecodeError", "TypeError" }

(***************************************************************************)
(* AnswerEvaluator._get_fallback_evaluation                                *)
(***************************************************************************)

\* [kw for kw in expected_keywords if kw.lower() in answer_lower]
RECURSIVE MatchedKeywords(_, _)
MatchedKeywords(kws, answer_lower) ==
    IF kws = <<>> THEN <<>>
    ELSE IF Contains(Lower(Head(kws)), answer_lower)
         THEN <<Head(kws)>> \o MatchedKeywords(Tail(kws), answer_lower)
         ELSE MatchedKeywords(Tail(kws), answer_lower)

\* [kw for kw in expected_keywords if kw.lower() not in answer_lower]
RECURSIVE MissedKeywords(_, _)
MissedKeywords(kws, answer_lower) ==
    IF kws = <<>> THEN <<>>
    ELSE IF ~Contains(Lower(Head(kws)), answer_lower)
         THEN <<Head(kws)>> \o MissedKeywords(Tail(kws), answer_lower)
         ELSE MissedKeywords(Tail(kws), answer_lower)

\* round(num / den, 0) of Python 3: to the nearest integer, a tie to the even one.
RoundHalfEven(num, den) ==
    LET q == num \div den
        r == num % den
    IN  IF 2 * r < den THEN q
        ELSE IF 2 * r > den THEN q + 1
        ELSE IF q % 2 = 0 THEN q ELSE q + 1

\* Variant of KeywordScore: the ratio is cut to one decimal, not rounded.
KeywordScoreTruncated(matched, total) == (100 * matched) \div total

\* round(len(matched) / len(expected) * 10, 1), in tenths
KeywordScore(matched, total) == RoundHalfEven(100 * matched, total)

\* Variant of LengthScore: the length is taken before strip().
LengthScoreUnstripped(answer) == IF Len(answer) > 20 THEN 60 ELSE 30

\* 6.0 if len(answer.strip()) > 20 else 3.0, in tenths
LengthScore(answer) == IF Len(Strip(answer)) > 20 THEN 60 ELSE 30

FallbackFeedback ==
    "Automated evaluation based on keyword matching. Manual review recommended."

get_fallback_evaluation(question, answer, expected_keywords, now) ==
    LET kws == IF expected_keywords.none \/ expected_keywords.items = <<>>
               THEN <<>> ELSE expected_keywords.items
        answer_lower == Lower(answer)
        matched_keywords == MatchedKeywords(kws, answer_lower)
        missed_keywords == MissedKeywords(kws, answer_lower)
        score == IF kws # <<>>
                 THEN KeywordScore(Len(matched_keywords), Len(kws))
                 ELSE LengthScore(answer)
        is_correct == score >= 70
        is_partial == 50 <= score /\ score < 70
    IN  [is_correct |-> is_correct,
         is_partial |-> is_partial,
         score |-> score,
         evaluation |-> [accuracy |-> score, completeness |-> score,
                         relevance |-> score, confidence |-> "low"],
         feedback |-> FallbackFeedback,
         keywords_matched |-> matched_keywords,
         keywords_missed |-> missed_keywords,
         strengths |-> IF answer # <<>> THEN <<"Response provided">> ELSE <<>>,
         improvements |-> IF ~is_correct
                          THEN <<"Could provide more detailed explanation">>
                          ELSE <<>>,
         technical_depth |-> score,
         communication_quality |-> 70,
         timestamp |-> now,
         question |-> question,
         answer |-> answer,
         fallback |-> TRUE]

(***************************************************************************)
(* AnswerEvaluator._parse_evaluation_response                              *)
(***************************************************************************)

\* json.loads(response_text)
json_loads(content) ==
    CASE content.t = "invalid" -> Raise("JSONDecodeError")
      [] content.t = "None" -> Raise("TypeError")
      [] OTHER -> Return(content)

required_fields ==
    [is_correct |-> FALSE, is_partial |-> FALSE, score |-> Num(0),
     evaluation |-> [accuracy |-> 0, completeness |-> 0, relevance |-> 0,
                     confidence |-> "low"],
     feedback |-> "",
     keywords_matched |-> <<>>, keywords_missed |-> <<>>,
     strengths |-> <<>>, improvements |-> <<>>]

\* for key, default_value in required_fields.items():
\*     if key not in evaluation: evaluation[key] = default_value
MergeDefaults(evaluation) == evaluation @@ required_fields

\* Python orders an int or a float against an int; a str or None is a TypeError.
Ordered(j) == j.t \in {"num", "nan"}

\* Variant of ClampScore: only the lower end is enforced.
ClampScoreNoCeiling(j) == IF j.t # "nan" /\ j.n > 0 THEN j.n ELSE 0

\* max(0, min(10, score)), in tenths. min and max keep their first argument
\* unless the second is strictly smaller (larger); every comparison with NaN is
\* false, so min(10, NaN) is 10.
ClampScore(j) ==
    LET lower == IF j.t # "nan" /\ j.n < 100 THEN j.n ELSE 100
    IN  IF lower > 0 THEN lower ELSE 0

\* except json.JSONDecodeError
ParseCatches(exc) == exc = "JSONDecodeError"

\* the response text is no JSON: the handler of line 211 runs
Unparsable(content) ==
    json_loads(content).raised /\ ParseCatches(json_loads(content).exc)

\* self._get_fallback_evaluation("", "", [])
ParseFallbackArguments ==
    [question |-> "", answer |-> <<>>, expected_keywords |-> List(<<>>)]

parse_evaluation_response(content, now) ==
    LET loaded == json_loads(content)
    IN  IF loaded.raised
        THEN IF Unparsable(content)
             THEN Return(get_fallback_evaluation(ParseFallbackArguments.question,
                                                 ParseFallbackArguments.answer,
                                                 ParseFallbackArguments.expected_keywords,
                                                 now))
             ELSE loaded
        ELSE IF content.t # "object"
        THEN Raise("TypeError")
        ELSE LET evaluation == MergeDefaults(content.obj)
             IN  IF ~Ordered(evaluation.score)
                 THEN Raise("TypeError")
                 ELSE Return([evaluation EXCEPT !.score = ClampScore(evaluation.score)])

(***************************************************************************)
(* AnswerEvaluator.evaluate_answer                                         *)
(***************************************************************************)

NoReturn == [outcome |-> "none"]

\* Variant of EvaluateAnswerCatches: only the API's own error is handled.
CatchesAPIErrorOnly(exc) == exc = "APIError"

\* except Exception
EvaluateAnswerCatches(exc) == exc \in Exceptions

\* evaluation["question"] = question ... evaluation["difficulty_level"] = difficulty_level
AddMetadata(evaluation, c, now) ==
    ("question" :> c.question) @@ ("answer" :> c.answer) @@ ("timestamp" :> now) @@
    ("difficulty_level" :> c.difficulty_level) @@ evaluation

\* The body of evaluate_answer from the return of _call_openai on: how the call
\* ends, and the entry it appends to the history, if any.
\*   path "model":      the response was parsed and returned
\*   path "unparsable": the parser returned its fallback, which is then treated
\*                      as a parsed response
\*   path "except":     the except branch returned the fallback
EvaluateAnswerEnd(c, outcome, now) ==
    LET step == IF outcome.kind = "raise"
                THEN Raise(outcome.exc)
                ELSE parse_evaluation_response(outcome.content, now)
    IN  IF ~step.raised
        THEN LET evaluation == AddMetadata(step.value, c, now)
             IN  [outcome |-> "returned", value |-> evaluation, appended |-> TRUE,
                  path |-> IF Unparsable(outcome.content) THEN "unparsable" ELSE "model"]
        ELSE IF EvaluateAnswerCatches(step.exc)
        THEN [outcome |-> "returned",
              value |-> get_fallback_evaluation(c.question, c.answer,
                                                c.expected_keywords, now),
              appended |-> FALSE, path |-> "except"]
        ELSE [outcome |-> "raised", exc |-> step.exc, appended |-> FALSE,
              path |-> "propagated"]

\* Variant of AppendEvaluation: the history holds the latest evaluation only.
KeepLatestOnly(history, evaluation) == <<evaluation>>

\* self.evaluation_history.append(evaluation)
AppendEvaluation(history, evaluation) == Append(history, evaluation)

\* evaluate_answer is called and runs to its await of _call_openai.
EvaluateAnswerBegin(c) ==
    /\ pc = "idle"
    /\ started < MaxCalls
    /\ pc' = "awaiting"
    /\ call' = c
    /\ response' = NoResponse
    /\ ret' = NoReturn
    /\ started' = started + 1
    /\ UNCHANGED <<evaluation_history, completed, clock>>

\* _call_openai ends and evaluate_answer runs to its return.
EvaluateAnswerResume(outcome) ==
    /\ pc = "awaiting"
    /\ LET end == EvaluateAnswerEnd(call, outcome, clock)
       IN  /\ ret' = end
           /\ evaluation_history' =
                  IF end.appended
                  THEN AppendEvaluation(evaluation_history, end.value)
                  ELSE evaluation_history
    /\ response' = outcome
    /\ pc' = "idle"
    /\ completed' = completed + 1
    /\ clock' = clock + 1
    /\ UNCHANGED <<call, started>>

(***************************************************************************)
(* AnswerEvaluator.calculate_overall_performance                           *)
(***************************************************************************)

total_questions(history) == IF history = <<>> THEN 0 ELSE Len(history)

RECURSIVE SumSeq(_)
SumSeq(s) == IF s = <<>> THEN 0 ELSE Head(s) + SumSeq(Tail(s))

\* e.get("is_correct", False), e.get("is_partial", False), e.get("score", 0)
IsCorrect(e) == IF "is_correct" \in DOMAIN e THEN e.is_correct ELSE FALSE
IsPartial(e) == IF "is_partial" \in DOMAIN e THEN e.is_partial ELSE FALSE
ScoreOf(e) == IF "score" \in DOMAIN e THEN e.score ELSE 0

\* e.get("evaluation", {}).get("accuracy", 0), e.get("technical_depth", 0),
\* e.get("communication_quality", 0)
AccuracyOf(e) ==
    IF "evaluation" \in DOMAIN e /\ "accuracy" \in DOMAIN e.evaluation
    THEN e.evaluation.accuracy ELSE 0
TechnicalDepthOf(e) == IF "technical_depth" \in DOMAIN e THEN e.technical_depth ELSE 0
CommunicationOf(e) ==
    IF "communication_quality" \in DOMAIN e THEN e.communication_quality ELSE 0

correct_answers(history) == Cardinality({ i \in DOMAIN history : IsCorrect(history[i]) })
partial_answers(history) == Cardinality({ i \in DOMAIN history : IsPartial(history[i]) })

\* Variant of wrong_answers: the partial answers are not taken off.
WrongAnswersKeepingPartial(total, correct, partial) == total - correct

\* wrong_answers = total_questions - correct_answers - partial_answers
wrong_answers(total, correct, partial) == total - correct - partial

\* sum(e.get("score", 0) ...), in tenths of a point
total_score_sum(history) == SumSeq([i \in DOMAIN history |-> ScoreOf(history[i])])

\* Variant of average_score: the second decimal is cut off, not rounded.
AverageScoreTruncated(score_sum, total) == (10 * score_sum) \div total

\* round((total_score_sum / total_questions) * 10, 1), in tenths of a percent:
\* the sum is in tenths of a point, so the mean times 10 is score_sum / total
\* percent, and ten times that in tenths.
average_score(score_sum, total) == RoundHalfEven(10 * score_sum, total)

SumAccuracy(history) == SumSeq([i \in DOMAIN history |-> AccuracyOf(history[i])])
SumTechnical(history) == SumSeq([i \in DOMAIN history |-> TechnicalDepthOf(history[i])])
SumCommunication(history) ==
    SumSeq([i \in DOMAIN history |-> CommunicationOf(history[i])])

\* Variant of CategoryStrength: the upper threshold is exclusive.
CategoryStrengthExclusive(value_sum, total, threshold, sentence) ==
    IF value_sum > threshold * total THEN <<sentence>> ELSE <<>>

\* One category of lines 297-310: the mean value_sum / total against the upper
\* threshold and against 60.
CategoryStrength(value_sum, total, threshold, sentence) ==
    IF value_sum >= threshold * total THEN <<sentence>> ELSE <<>>
CategoryWeakness(value_sum, total, threshold, sentence) ==
    IF value_sum >= threshold * total THEN <<>>
    ELSE IF value_sum < 60 * total THEN <<sentence>> ELSE <<>>

strengths(history) ==
    LET n == Len(history)
    IN  CategoryStrength(SumCommunication(history), n, 75, "Strong communication skills")
        \o CategoryStrength(SumTechnical(history), n, 75, "Good technical knowledge")
        \o CategoryStrength(SumAccuracy(history), n, 80, "High accuracy in responses")

weaknesses(history) ==
    LET n == Len(history)
    IN  CategoryWeakness(SumCommunication(history), n, 75,
                         "Could improve communication clarity")
        \o CategoryWeakness(SumTechnical(history), n, 75,
                            "Needs to deepen technical understanding")
        \o CategoryWeakness(SumAccuracy(history), n, 80, "Could improve answer accuracy")

StronglyRecommend ==
    "Strongly recommend for next round. Candidate demonstrates excellent understanding and communication."
Recommend ==
    "Recommend for next round. Candidate shows good potential with some areas for growth."
ConsiderWithReservations ==
    "Consider for next round with reservations. Additional assessment may be needed."
DoesNotMeet ==
    "Does not meet current requirements. May need more preparation."

\* Variant of recommendation: the tier bounds are exclusive.
RecommendationExclusive(average) ==
    IF average > 800 THEN StronglyRecommend
    ELSE IF average > 650 THEN Recommend
    ELSE IF average > 500 THEN ConsiderWithReservations
    ELSE DoesNotMeet

\* lines 316-323, on average_score in tenths of a percent
recommendation(average) ==
    IF average >= 800 THEN StronglyRecommend
    ELSE IF average >= 650 THEN Recommend
    ELSE IF average >= 500 THEN ConsiderWithReservations
    ELSE DoesNotMeet

\* Variant of metrics: confidence_level averages all three category means.
MetricsConfidenceOfThree(history) ==
    LET n == Len(history)
    IN  [accuracy |-> RoundHalfEven(10 * SumAccuracy(history), n),
         technical_score |-> RoundHalfEven(10 * SumTechnical(history), n),
         communication_score |-> RoundHalfEven(10 * SumCommunication(history), n),
         response_rate |->
             RoundHalfEven(1000 * (correct_answers(history) + partial_answers(history)), n),
         confidence_level |->
             RoundHalfEven(10 * (SumAccuracy(history) + SumTechnical(history)
                                 + SumCommunication(history)), 3 * n)]

\* the "metrics" dict, each value rounded to one decimal
metrics(history) ==
    LET n == Len(history)
    IN  [accuracy |-> RoundHalfEven(10 * SumAccuracy(history), n),
         technical_score |-> RoundHalfEven(10 * SumTechnical(history), n),
         communication_score |-> RoundHalfEven(10 * SumCommunication(history), n),
         response_rate |->
             RoundHalfEven(1000 * (correct_answers(history) + partial_answers(history)), n),
         confidence_level |->
             RoundHalfEven(10 * (SumAccuracy(history) + SumTechnical(history)), 2 * n)]

\* Variant of NoEvaluations: the empty history is summarised as the general
\* branch would summarise means of zero.
NoEvaluationsAllWeak ==
    [total_score |-> 0, correct_answers |-> 0, wrong_answers |-> 0,
     partial_answers |-> 0, average_score |-> 0, total_questions |-> 0,
     strengths |-> <<>>,
     weaknesses |-> <<"Could improve communication clarity",
                      "Needs to deepen technical understanding",
                      "Could improve answer accuracy">>]

\* the dict returned for an empty history
NoEvaluations ==
    [total_score |-> 0, correct_answers |-> 0, wrong_answers |-> 0,
     partial_answers |-> 0, average_score |-> 0, total_questions |-> 0]

calculate_overall_performance(history) ==
    IF history = <<>>
    THEN NoEvaluations
    ELSE LET total == total_questions(history)
             correct == correct_answers(history)
             partial == partial_answers(history)
             average == average_score(total_score_sum(history), total)
         IN  [total_score |-> average,
              correct_answers |-> correct,
              wrong_answers |-> wrong_answers(total, correct, partial),
              partial_answers |-> partial,
              average_score |-> average,
              total_questions |-> total,
              strengths |-> strengths(history),
              weaknesses |-> weaknesses(history),
              recommendation |-> recommendation(average),
              metrics |-> metrics(history)]

\* Bound: calculate_overall_performance calls recorded.
MaxSummaries == 2

\* Variant of CalculateOverallPerformance: the summary consumes the history.
CalculateAndDrain ==
    /\ Len(summaries) < MaxSummaries
    /\ summaries' = Append(summaries,
                           [value |-> calculate_overall_performance(evaluation_history),
                            after |-> completed])
    /\ evaluation_history' = <<>>
    /\ UNCHANGED <<pc, call, response, ret, started, completed, clock>>

\* calculate_overall_performance() is called on the evaluator: it has no await,
\* so it runs between two steps of evaluate_answer; `after` records how many
\* evaluate_answer calls had ended when it ran.
CalculateOverallPerformance ==
    /\ Len(summaries) < MaxSummaries
    /\ summaries' = Append(summaries,
                           [value |-> calculate_overall_performance(evaluation_history),
                            after |-> completed])
    /\ UNCHANGED evaluatorVars

(***************************************************************************)
(* The /api endpoints of the server                                        *)
(***************************************************************************)

Rooms == { "roomA", "roomB" }

NoRoom == "none"

NoHttpResponse == [endpoint |-> "none"]

\* evaluator = get_evaluator(): the module's one AnswerEvaluator, whatever the
\* room of the request.
get_evaluator(room, history) == history

\* performance.get(key, default)
Get(dict, key, default) == IF key \in DOMAIN dict THEN dict[key] ELSE default

\* the body returned by GET /api/interview-stats/{room_id}
get_interview_stats(room, history) ==
    IF get_evaluator(room, history) = <<>>
    THEN [room_id |-> room, questions_asked |-> 0, answers_evaluated |-> 0,
          current_score |-> 0]
    ELSE LET current_performance ==
                 calculate_overall_performance(get_evaluator(room, history))
         IN  [room_id |-> room,
              questions_asked |-> Get(current_performance, "total_questions", 0),
              answers_evaluated |-> Get(current_performance, "total_questions", 0),
              current_score |-> Get(current_performance, "total_score", 0),
              correct_answers |-> Get(current_performance, "correct_answers", 0),
              wrong_answers |-> Get(current_performance, "wrong_answers", 0),
              partial_answers |-> Get(current_performance, "partial_answers", 0)]

\* the body returned by POST /api/complete-interview
complete_interview(room, history) ==
    LET performance == calculate_overall_performance(get_evaluator(room, history))
    IN  [success |-> TRUE,
         room_id |-> room,
         score |-> Get(performance, "total_score", 0),
         performance |->
             [total_score |-> Get(performance, "total_score", 0),
              correct_answers |-> Get(performance, "correct_answers", 0),
              wrong_answers |-> Get(performance, "wrong_answers", 0),
              partial_answers |-> Get(performance, "partial_answers", 0),
              total_questions |-> Get(performance, "total_questions", 0),
              strengths |-> Get(performance, "strengths", <<>>),
              weaknesses |-> Get(performance, "weaknesses", <<>>),
              recommendation |-> Get(performance, "recommendation", "")],
         analysis |->
             Get(performance, "metrics",
                 [accuracy |-> 0, technical_score |-> 0, communication_score |-> 0,
                  response_rate |-> 0, confidence_level |-> 0])]

\* POST /api/evaluate-answer for a room runs to the await of _call_openai.
PostEvaluateAnswerBegin(room, c) ==
    /\ EvaluateAnswerBegin(c)
    /\ room_id' = room
    /\ UNCHANGED http_response

\* _call_openai ends and the handler returns the evaluation.
PostEvaluateAnswerEnd(outcome) ==
    /\ EvaluateAnswerResume(outcome)
    /\ http_response' =
           IF ret'.outcome = "returned"
           THEN [endpoint |-> "evaluate-answer", status |-> 200,
                 body |-> [success |-> TRUE, evaluation |-> ret'.value,
                           room_id |-> room_id]]
           ELSE [endpoint |-> "evaluate-answer", status |-> 500]
    /\ UNCHANGED room_id

\* POST /api/complete-interview for a room
PostCompleteInterview(room) ==
    /\ http_response' = [endpoint |-> "complete-interview", status |-> 200,
                         body |-> complete_interview(room, evaluation_history)]
    /\ UNCHANGED <<evaluatorVars, room_id>>

\* GET /api/interview-stats/{room_id}
GetInterviewStats(room) ==
    /\ http_response' = [endpoint |-> "interview-stats", status |-> 200,
                         body |-> get_interview_stats(room, evaluation_history)]
    /\ UNCHANGED <<evaluatorVars, room_id>>

(***************************************************************************)
(* /token and /agent/candidate-details (src/server.py)                     *)
(***************************************************************************)

\* Bound: /token requests received.
MaxRequests == 3

\* candidate_data = None, and a room that is no key of candidate_details_store
NoCandidateData == [candidateName |-> "none"]
CandidateAnn == [candidateName |-> "Ann"]
CandidateBob == [candidateName |-> "Bob"]

\* candidate_details_events.get(room_name) is an Event: a key is there
HasEvent(room) == candidate_details_events[room] # 0

\* event.set(): every coroutine waiting on the Event becomes ready to run
SetEvent(all, event) == [all EXCEPT ![event] = TRUE]

\* what the handler returns: url, token, identity and room, with the metadata
\* of the agent dispatch the token carries; candidateDetails is a key of the
\* metadata only when candidate_data is truthy
TokenResponse(candidate_data) ==
    [status |-> 200, token |-> TRUE,
     metadata |-> IF candidate_data # NoCandidateData
                  THEN [candidateDetails |-> candidate_data]
                  ELSE [keys |-> "none"]]

NotAvailable ==
    "Candidate details not yet available. Ensure /agent/candidate-details is called before /token."

\* raise HTTPException(status_code=409, detail=...) inside the handler's try
HTTPException409 == [status_code |-> 409, detail |-> NotAvailable]

\* except Exception as e: raise HTTPException(status_code=500, detail=str(e));
\* HTTPException is an Exception, so the handler's own 409 is caught here too
ExceptException(e) ==
    [status |-> 500, token |-> FALSE, detail |-> <<"str", e.status_code, e.detail>>]

NoTokenResponse == [status |-> 0, token |-> FALSE]

\* step 3 of generate_token: candidate details that were found are used once;
\* the room's key is popped from the dictionary
UseCandidateData(room, candidate_data, dict, absent) ==
    IF candidate_data # NoCandidateData
    THEN [dict EXCEPT ![room] = absent]
    ELSE dict

\* POST /token, up to the await or, when candidate details are at hand, to
\* the return
PostToken(room, candidateDetails) ==
    /\ Len(token_requests) < MaxRequests
    /\ LET stored == IF candidateDetails # NoCandidateData
                      THEN [candidate_details_store EXCEPT ![room] = candidateDetails]
                      ELSE candidate_details_store
           notified == candidateDetails # NoCandidateData /\ HasEvent(room)
           set == IF notified
                  THEN SetEvent(events, candidate_details_events[room])
                  ELSE events
           pending == IF notified
                      THEN [candidate_details_events EXCEPT ![room] = 0]
                      ELSE candidate_details_events
           candidate_data == IF candidateDetails # NoCandidateData
                             THEN candidateDetails
                             ELSE stored[room]
       IN  IF candidate_data # NoCandidateData
           THEN /\ candidate_details_store' =
                       UseCandidateData(room, candidate_data, stored, NoCandidateData)
                /\ candidate_details_events' =
                       UseCandidateData(room, candidate_data, pending, 0)
                /\ events' = set
                /\ token_requests' =
                       Append(token_requests,
                              [room |-> room, pc |-> "done", event |-> 0,
                               response |-> TokenResponse(candidate_data)])
           ELSE /\ candidate_details_store' = stored
                /\ events' = IF HasEvent(room) THEN events ELSE Append(events, FALSE)
                /\ candidate_details_events' =
                       IF HasEvent(room)
                       THEN candidate_details_events
                       ELSE [candidate_details_events EXCEPT ![room] = Len(events) + 1]
                /\ token_requests' =
                       Append(token_requests,
                              [room |-> room, pc |-> "waiting",
                               event |-> candidate_details_events'[room],
                               response |-> NoTokenResponse])
    /\ UNCHANGED <<room_id, http_response>>

\* generate_token after await asyncio.wait_for(event.wait(), timeout=5) when
\* the event was set in time
PostTokenWoken(i) ==
    /\ token_requests[i].pc = "waiting"
    /\ events[token_requests[i].event]
    /\ LET room == token_requests[i].room
           candidate_data == candidate_details_store[room]
       IN  /\ candidate_details_store' =
                  UseCandidateData(room, candidate_data, candidate_details_store,
                                   NoCandidateData)
           /\ candidate_details_events' =
                  UseCandidateData(room, candidate_data, candidate_details_events, 0)
           /\ token_requests' =
                  [token_requests EXCEPT ![i].pc = "done",
                                         ![i].response = TokenResponse(candidate_data)]
    /\ UNCHANGED <<room_id, http_response, events>>

\* generate_token when the wait ends with asyncio.TimeoutError
PostTokenTimeout(i) ==
    /\ token_requests[i].pc = "waiting"
    /\ ~events[token_requests[i].event]
    /\ token_requests' =
           [token_requests EXCEPT ![i].pc = "done",
                                  ![i].response = ExceptException(HTTPException409)]
    /\ UNCHANGED <<room_id, http_response, events, candidate_details_store,
                   candidate_details_events>>

\* POST /agent/candidate-details with a roomName
PostCandidateDetails(room, data) ==
    /\ candidate_details_store' = [candidate_details_store EXCEPT ![room] = data]
    /\ IF HasEvent(room) /\ ~events[candidate_details_events[room]]
       THEN /\ events' = SetEvent(events, candidate_details_events[room])
            /\ candidate_details_events' = [candidate_details_events EXCEPT ![room] = 0]
       ELSE UNCHANGED <<events, candidate_details_events>>
    /\ UNCHANGED <<room_id, http_response, token_requests>>

(***************************************************************************)
(* InterviewTracker (src/livekit_utils.py)                                 *)
(***************************************************************************)

\* Bound: entries of a tracker's transcript.
MaxEntries == 5

\* self.last_question = None, self.current_question = None
NoQuestion == [none |-> TRUE, text |-> <<>>]

Question1 == <<"Q", "1", "?">>
Question2 == <<"Q", "2", "?", " ">>
Statement == <<"o", "k", ".">>

\* InterviewTracker()
NewTracker(now) ==
    [questions_asked |-> 0, answers_received |-> 0, start_time |-> now,
     transcript |-> <<>>, current_question |-> NoQuestion]

\* Variant of add_question: the number is the entry's position in the transcript.
AddQuestionNumberedByPosition(t, question, now) ==
    [tracker |-> [t EXCEPT !.questions_asked = @ + 1,
                           !.current_question = [none |-> FALSE, text |-> question],
                           !.transcript =
                               Append(@, [type |-> "question", content |-> question,
                                          number |-> Len(t.transcript) + 1,
                                          timestamp |-> now])],
     result |-> Len(t.transcript) + 1]

\* Variant of add_question: the question is logged and not counted.
AddQuestionUncounted(t, question, now) ==
    [tracker |-> [t EXCEPT !.current_question = [none |-> FALSE, text |-> question],
                           !.transcript =
                               Append(@, [type |-> "question", content |-> question,
                                          number |-> t.questions_asked + 1,
                                          timestamp |-> now])],
     result |-> t.questions_asked + 1]

\* add_question: the tracker after the call and the number returned
add_question(t, question, now) ==
    [tracker |-> [t EXCEPT !.questions_asked = @ + 1,
                           !.current_question = [none |-> FALSE, text |-> question],
                           !.transcript =
                               Append(@, [type |-> "question", content |-> question,
                                          number |-> t.questions_asked + 1,
                                          timestamp |-> now])],
     result |-> t.questions_asked + 1]

\* evaluation: Optional[Dict] = None
NoEvaluation == [none |-> TRUE]
SomeEvaluation ==
    [none |-> FALSE,
     value |-> get_fallback_evaluation("Q1", AnswerAcid, NoneKeywords, 0)]

\* Variant of the entry add_answer builds: filed under the question to come.
AnswerEntryForNextQuestion(t, answer, evaluation, now) ==
    [type |-> "answer", content |-> answer,
     question_number |-> t.questions_asked + 1, timestamp |-> now]

\* the entry add_answer builds
AnswerEntry(t, answer, evaluation, now) ==
    LET entry == [type |-> "answer", content |-> answer,
                  question_number |-> t.questions_asked, timestamp |-> now]
    IN  IF evaluation.none
        THEN entry
        ELSE ("evaluation" :> [score |-> ScoreOf(evaluation.value),
                               is_correct |-> IsCorrect(evaluation.value),
                               is_partial |-> IsPartial(evaluation.value)]) @@ entry

\* Variant of add_answer: the answer is filed in front of the log.
AddAnswerInFront(t, answer, evaluation, now) ==
    [t EXCEPT !.answers_received = @ + 1,
              !.transcript = <<AnswerEntry(t, answer, evaluation, now)>> \o @]

\* add_answer: the tracker after the call
add_answer(t, answer, evaluation, now) ==
    [t EXCEPT !.answers_received = @ + 1,
              !.transcript = Append(@, AnswerEntry(t, answer, evaluation, now))]

\* Variant of get_current_stats: the rate's second decimal is cut off.
GetCurrentStatsTruncated(t, now) ==
    [questions_asked |-> t.questions_asked,
     answers_received |-> t.answers_received,
     duration_seconds |-> now - t.start_time,
     response_rate |-> IF t.questions_asked > 0
                       THEN (1000 * t.answers_received) \div t.questions_asked
                       ELSE 0]

\* get_current_stats; response_rate in tenths of a percent
get_current_stats(t, now) ==
    [questions_asked |-> t.questions_asked,
     answers_received |-> t.answers_received,
     duration_seconds |-> now - t.start_time,
     response_rate |-> IF t.questions_asked > 0
                       THEN RoundHalfEven(1000 * t.answers_received, t.questions_asked)
                       ELSE 0]

NoStats == [none |-> TRUE]

\* get_transcript returns self.transcript, the list object itself: what the
\* caller holds is a reference to the tracker's log. `seen` is the content the
\* log had when the reference was handed out.
NoTranscript == [held |-> FALSE, seen |-> <<>>]
get_transcript(t) == [held |-> TRUE, seen |-> t.transcript]

\* the content read through a reference get_transcript returned
ReadTranscript(ref, t) == IF ref.held THEN t.transcript ELSE <<>>

AddQuestion(question) ==
    /\ Len(tracker.transcript) < MaxEntries
    /\ tracker' = add_question(tracker, question, clock).tracker
    /\ question_num' = add_question(tracker, question, clock).result
    /\ UNCHANGED <<current_stats, transcript_ref>>

AddAnswer(answer, evaluation) ==
    /\ Len(tracker.transcript) < MaxEntries
    /\ tracker' = add_answer(tracker, answer, evaluation, clock)
    /\ UNCHANGED <<question_num, current_stats, transcript_ref>>

GetCurrentStats ==
    /\ current_stats' = get_current_stats(tracker, clock)
    /\ UNCHANGED <<tracker, question_num, transcript_ref>>

GetTranscript ==
    /\ transcript_ref' = get_transcript(tracker)
    /\ UNCHANGED <<tracker, question_num, current_stats>>

(***************************************************************************)
(* The interview agent: one session                                        *)
(***************************************************************************)

\* Bounds: final user transcripts delivered, agent utterances that are questions.
MaxTranscripts == 2
MaxQuestions == 2

AgentUtterances == { Question1, Question2, Statement }

UserTranscripts == { AnswerAcid, <<" ", "y", "e", "s", " ">>, <<" ">> }

\* the model's answers seen by the agent's evaluator
AgentOutcomes ==
    { [kind |-> "raise", exc |-> "APIError"],
      [kind |-> "return", content |-> [t |-> "invalid"]],
      [kind |-> "return", content |-> [t |-> "object", obj |-> ObjectGood]] }

\* how local_participant.publish_data ends
PublishOutcomes == { "sent", "raise" }

\* str.endswith('?')
EndsWithQuestionMark(s) == s # <<>> /\ s[Len(s)] = "?"

\* Variant of HasQuestion: an answer is evaluated whether or not a question is
\* recorded.
HasQuestionOrNone(q) == TRUE

\* if self.last_question (and interview_data.evaluator, set by on_enter)
HasQuestion(q) == ~q.none /\ q.text # <<>>

\* transcript_saver.add_message: a blank text is skipped, any other is appended
\* stripped to the global buffer.
add_message(buffer, sender, text) ==
    IF Strip(text) = <<>>
    THEN buffer
    ELSE Append(buffer, [sender |-> sender, text |-> Strip(text)])

\* _send_data_message: the message goes out on the data channel, or the
\* exception of publish_data is raised again.
send_data_message(channel, message, outcome) ==
    IF outcome = "sent"
    THEN [channel |-> Append(channel, message), result |-> Return("None")]
    ELSE [channel |-> channel, result |-> Raise("PublishError")]

\* Variant of SenderResult: the exception of _send_data_message is passed on.
SenderCatchesNothing(sent) ==
    IF sent.raised THEN sent ELSE Return(TRUE)

\* send_answer_evaluation, send_response_analysis, send_performance_update,
\* send_question_asked, send_interview_complete: each returns True after
\* _send_data_message and False from its `except Exception`.
SenderResult(sent) ==
    IF sent.raised THEN Return(FALSE) ELSE Return(TRUE)

\* the message send_answer_evaluation builds
AnswerEvaluationMessage(evaluation, number) ==
    [type |-> "answer_evaluation", score |-> ScoreOf(evaluation),
     is_correct |-> IsCorrect(evaluation), question_number |-> number]

\* the message send_response_analysis builds
ResponseAnalysisMessage(evaluation) ==
    [type |-> "response_analysis", score |-> ScoreOf(evaluation),
     is_correct |-> IsCorrect(evaluation)]

\* the message send_performance_update builds
PerformanceUpdateMessage(stats) == [type |-> "performance_update", stats |-> stats]

\* the message send_question_asked builds
QuestionAskedMessage(question, number) ==
    [type |-> "question_asked", question |-> question, question_number |-> number]

NoMessage == [type |-> "none"]

\* on_user_transcript_event and the first run of the two tasks it creates.  A
\* final transcript whose text is not blank creates a task running
\* on_user_transcript(text) and a task running _handle_user_answer(text), text
\* stripped; nothing waits for either.  The event loop runs them next to each
\* other in that order: the first puts the text in the global buffer and ends;
\* the second puts it there again (its own on_user_transcript call), has the
\* tracker record the answer, and then runs to the await inside
\* evaluate_answer, or to its end when there is no question to evaluate against.
OnUserTranscriptEvent(text) ==
    /\ IF Strip(text) = <<>>
       THEN UNCHANGED <<tasks, transcript_buffer, tracker, started>>
       ELSE /\ transcript_buffer' =
                   add_message(add_message(transcript_buffer, "candidate", Strip(text)),
                               "candidate", Strip(text))
            /\ tracker' = add_answer(tracker, Strip(text), NoEvaluation, clock)
            /\ tasks' = Append(tasks,
                               [pc |-> IF HasQuestion(last_question)
                                       THEN "awaiting" ELSE "done",
                                answer |-> Strip(text),
                                question |-> last_question, ret |-> NoReturn,
                                outbox |-> NoMessage, sends |-> <<>>])
            /\ started' = IF HasQuestion(last_question) THEN started + 1 ELSE started
    /\ UNCHANGED <<evaluation_history, pc, call, response, ret, completed, clock,
                   last_question, question_count, responses, question_num,
                   current_stats, transcript_ref, published, monitor, posted,
                   waiting_for_answer>>

\* evaluate_answer(question=self.last_question, answer=answer,
\*                 expected_keywords=None, difficulty_level="medium")
AgentCall(task) ==
    [question |-> task.question.text, answer |-> task.answer,
     expected_keywords |-> NoneKeywords, difficulty_level |-> "medium"]

\* _call_openai ends for a task: evaluate_answer runs to its return and the
\* handler goes on to send_answer_evaluation, up to the await of publish_data.
HandleUserAnswerResume(i, outcome) ==
    /\ tasks[i].pc = "awaiting"
    /\ LET end == EvaluateAnswerEnd(AgentCall(tasks[i]), outcome, clock)
       IN  /\ tasks' = [tasks EXCEPT
                           ![i].pc = "sending", ![i].ret = end,
                           ![i].outbox = AnswerEvaluationMessage(end.value, question_count)]
           /\ evaluation_history' =
                  IF end.appended
                  THEN AppendEvaluation(evaluation_history, end.value)
                  ELSE evaluation_history
    /\ completed' = completed + 1
    /\ clock' = clock + 1
    /\ UNCHANGED <<pc, call, response, ret, started, last_question, question_count,
                   responses, trackerVars, published, transcript_buffer, monitor,
                   posted, waiting_for_answer>>

\* publish_data ends for the notification a task is sending.  The sender
\* returns; the handler builds the next notification and awaits its
\* publication, or, after the third, appends the record to responses with
\* self.last_question as it is then.  An exception that leaves the sender ends
\* the handler in its `except Exception`.
HandleUserAnswerSent(i, outcome) ==
    /\ tasks[i].pc = "sending"
    /\ LET sent   == send_data_message(published, tasks[i].outbox, outcome)
           result == SenderResult(sent.result)
           sends  == Append(tasks[i].sends, result)
           evaluation == tasks[i].ret.value
       IN  /\ published' = sent.channel
           /\ IF result.raised
              THEN /\ tasks' = [tasks EXCEPT ![i].pc = "done", ![i].sends = sends,
                                             ![i].outbox = NoMessage]
                   /\ UNCHANGED <<responses, current_stats>>
              ELSE IF Len(sends) = 1
              THEN /\ tasks' = [tasks EXCEPT ![i].sends = sends,
                                             ![i].outbox = ResponseAnalysisMessage(evaluation)]
                   /\ UNCHANGED <<responses, current_stats>>
              ELSE IF Len(sends) = 2
              THEN /\ current_stats' = get_current_stats(tracker, clock)
                   /\ tasks' = [tasks EXCEPT
                                   ![i].sends = sends,
                                   ![i].outbox = PerformanceUpdateMessage(
                                                     get_current_stats(tracker, clock))]
                   /\ UNCHANGED responses
              ELSE /\ responses' = Append(responses,
                                          [question |-> last_question.text,
                                           answer |-> tasks[i].answer,
                                           evaluation |-> evaluation])
                   /\ tasks' = [tasks EXCEPT ![i].pc = "done", ![i].sends = sends,
                                             ![i].outbox = NoMessage]
                   /\ UNCHANGED current_stats
    /\ UNCHANGED <<evaluatorVars, last_question, question_count, tracker,
                   question_num, transcript_ref, transcript_buffer, monitor, posted,
                   waiting_for_answer>>

\* the agent utterances already handled: each leaves two entries in the buffer
AgentEntries(buffer) == Cardinality({ k \in DOMAIN buffer : buffer[k].sender = "agent" })

\* on_agent_speech_event and _handle_agent_question: the utterance goes to the
\* global buffer from on_agent_speech's task and again from the handler; one
\* ending in '?' becomes the last question, is recorded by the tracker and is
\* announced with the number the tracker returned.
HandleAgentQuestion(text, outcome) ==
    /\ question_count < MaxQuestions
    /\ AgentEntries(transcript_buffer) < 2 * MaxQuestions
    /\ transcript_buffer' =
           add_message(add_message(transcript_buffer, "agent", text), "agent", Strip(text))
    /\ IF EndsWithQuestionMark(Strip(text))
       THEN /\ last_question' = [none |-> FALSE, text |-> Strip(text)]
            /\ question_count' = question_count + 1
            /\ tracker' = add_question(tracker, Strip(text), clock).tracker
            /\ question_num' = add_question(tracker, Strip(text), clock).result
            /\ published' =
                   send_data_message(
                       published,
                       QuestionAskedMessage(Strip(text),
                                            add_question(tracker, Strip(text), clock).result),
                       outcome).channel
            /\ waiting_for_answer' = TRUE
       ELSE UNCHANGED <<last_question, question_count, tracker, question_num, published,
                        waiting_for_answer>>
    /\ UNCHANGED <<evaluatorVars, tasks, responses, current_stats, transcript_ref, monitor,
                   posted>>

\* Bound: calls of on_enter.
MaxEnters == 2

\* Variant of Initialises: on_enter sets the session up at every call.
InitialisesAlways(flag) == TRUE

\* if not interview_data.interview_started
Initialises(flag) == ~flag

\* on_enter up to await asyncio.sleep(0.2): the first call creates the
\* evaluator and the tracker; a later one finds the flag set and returns
OnEnter ==
    /\ Len(on_enter) < MaxEnters
    /\ IF Initialises(interview_started)
       THEN /\ interview_started' = TRUE
            /\ evaluation_history' = <<>>
            /\ tracker' = NewTracker(clock)
            /\ on_enter' = Append(on_enter, [pc |-> "sleeping", at |-> clock])
       ELSE /\ on_enter' = Append(on_enter, [pc |-> "done", at |-> clock])
            /\ UNCHANGED <<interview_started, evaluation_history, tracker>>
    /\ UNCHANGED <<greeting_sent, greetings>>

\* greet_candidate: greeting_sent and the number of greetings after the call;
\* an exception of generate_reply is logged
greet_candidate(sent, count) ==
    IF sent
    THEN [greeting_sent |-> TRUE, greetings |-> count]
    ELSE [greeting_sent |-> TRUE, greetings |-> count + 1]

\* on_enter after the sleep: await self.greet_candidate()
OnEnterGreet(i) ==
    /\ on_enter[i].pc = "sleeping"
    /\ on_enter' = [on_enter EXCEPT ![i].pc = "done"]
    /\ greeting_sent' = greet_candidate(greeting_sent, greetings).greeting_sent
    /\ greetings' = greet_candidate(greeting_sent, greetings).greetings
    /\ UNCHANGED <<interview_started, evaluation_history, tracker>>

\* greet_candidate called from elsewhere
GreetCandidate ==
    /\ greeting_sent' = greet_candidate(greeting_sent, greetings).greeting_sent
    /\ greetings' = greet_candidate(greeting_sent, greetings).greetings
    /\ UNCHANGED <<interview_started, evaluation_history, tracker, on_enter>>

\* entrypoint has not read the metadata yet
NotStarted == [status |-> "not started"]

\* Bound: messages in the transcript buffer when savers are used directly.
MaxBuffer == 3

\* how requests.post ends: a status code or an exception
PostOutcomes == { "200", "500", "Timeout", "ConnectionError", "Exception" }

\* requests.post(api_url, json=payload, ..., timeout=10)
requests_post(outcome) ==
    IF outcome \in { "200", "500" } THEN Return(outcome) ELSE Raise(outcome)

\* Variant of SaveTranscriptCatches: only the timeout is handled.
SaveTranscriptCatchesTimeout(exc) == exc = "Timeout"

\* the except clauses of save_transcript: Timeout, ConnectionError, Exception
SaveTranscriptCatches(exc) == exc \in { "Timeout", "ConnectionError", "Exception" }

\* save_transcript: the buffer after the call and what the call returns or
\* raises.  clear_buffer() runs only after a response with status 200.
save_transcript(buffer, outcome) ==
    LET res == requests_post(outcome)
    IN  IF buffer = <<>>
        THEN [buffer |-> buffer, result |-> Return(FALSE)]
        ELSE IF res.raised
        THEN [buffer |-> buffer,
              result |-> IF SaveTranscriptCatches(res.exc) THEN Return(FALSE) ELSE res]
        ELSE IF res.value = "200"
        THEN [buffer |-> <<>>, result |-> Return(TRUE)]
        ELSE [buffer |-> buffer, result |-> Return(FALSE)]

\* TranscriptSaver(invitation_id=..., room_id=ctx.room.name, ...): the saver of
\* the session, and the saver of another session of the same process
SessionSaver == [invitation_id |-> "inv1", room_id |-> "roomA"]
OtherSaver == [invitation_id |-> "inv2", room_id |-> "roomB"]

NoPost == [interview_id |-> "none", room_id |-> "none", transcript |-> <<>>]

\* the payload save_transcript hands to requests.post for a saver; with an
\* empty buffer it returns before any request is made
Posted(last, saver, buffer) ==
    IF buffer = <<>>
    THEN last
    ELSE [interview_id |-> saver.invitation_id, room_id |-> saver.room_id,
          transcript |-> buffer]

\* TranscriptSaver.add_message(speaker, text): the module's add_message
SaverAddMessage(saver, speaker, text) ==
    /\ Len(transcript_buffer) < MaxBuffer
    /\ transcript_buffer' = add_message(transcript_buffer, speaker, text)
    /\ UNCHANGED posted

\* TranscriptSaver.save_transcript(): the module's save_transcript with the
\* saver's invitation_id and room_id
SaverSaveTranscript(saver, outcome) ==
    /\ posted' = Posted(posted, saver, transcript_buffer)
    /\ transcript_buffer' = save_transcript(transcript_buffer, outcome).buffer

\* the message send_interview_complete builds; the transcript is attached when
\* it is not empty
InterviewCompleteMessage(performance, transcript) ==
    LET message == [type |-> "interview_complete",
                    score |-> Get(performance, "total_score", 0),
                    performance |-> performance]
    IN  IF transcript # <<>>
        THEN ("transcript" :> transcript) @@ message
        ELSE message

\* monitor_interview before the last remote participant has left
Watching ==
    [pc |-> "watching", performance |-> NoEvaluations, outbox |-> NoMessage,
     post |-> "none", success |-> NoReturn]

\* monitor_interview finds no remote participant: the summary is computed, the
\* tracker's transcript is taken, and send_interview_complete runs up to the
\* await of publish_data.
MonitorInterviewBegin ==
    /\ monitor.pc = "watching"
    /\ transcript_ref' = get_transcript(tracker)
    /\ monitor' =
           [monitor EXCEPT
               !.pc = "sending",
               !.performance = calculate_overall_performance(evaluation_history),
               !.outbox = InterviewCompleteMessage(
                              calculate_overall_performance(evaluation_history),
                              ReadTranscript(get_transcript(tracker), tracker))]
    /\ UNCHANGED <<evaluatorVars, tasks, last_question, question_count, responses,
                   tracker, question_num, current_stats, published, transcript_buffer,
                   posted, waiting_for_answer>>

\* publish_data ends for interview_complete; then
\* interview_data.transcript_saver.save_transcript() runs to its end.  An
\* exception leaving it is logged by monitor_interview.
MonitorInterviewEnd(outcome, post) ==
    /\ monitor.pc = "sending"
    /\ published' = send_data_message(published, monitor.outbox, outcome).channel
    /\ transcript_buffer' = save_transcript(transcript_buffer, post).buffer
    /\ posted' = Posted(posted, SessionSaver, transcript_buffer)
    /\ monitor' = [monitor EXCEPT
                      !.pc = "done", !.outbox = NoMessage, !.post = post,
                      !.success = save_transcript(transcript_buffer, post).result]
    /\ UNCHANGED <<evaluatorVars, tasks, last_question, question_count, responses,
                   trackerVars, waiting_for_answer>>

(***************************************************************************)
(* Session start: the metadata of the job and of the room (src/agent.py)   *)
(***************************************************************************)

\* Values json.loads returns.  A str is a sequence of characters; the default
\* texts of entrypoint are kept in one piece.
JsonStr(chars) == [t |-> "str", s |-> chars]
JsonList(items) == [t |-> "list", items |-> items]
JsonObject(obj) == [t |-> "object", obj |-> obj]
EmptyDict == JsonObject(<<>>)

Details == <<"d", "e", "t", "a", "i", "l", "s">>
Ann == JsonStr(<<"A", "n", "n">>)
Bob == JsonStr(<<"B", "o", "b">>)

\* ctx.job.metadata, ctx.room.metadata: nothing, text that is no JSON, or JSON
MetadataText(value) == [t |-> "json", value |-> value]
MetadataTexts ==
    { [t |-> "empty"], [t |-> "invalid"] }
    \cup { MetadataText(v) :
             v \in { Num(5), Num(0), JNull,
                     JsonStr(<<"a", "b", "c">>), JsonStr(Details),
                     JsonList(<<Num(1)>>), JsonList(<<JsonStr(Details)>>),
                     EmptyDict,
                     JsonObject("candidateDetails" :> JsonStr(<<"a", "b", "c">>)),
                     JsonObject("candidateDetails" :> JsonObject("candidateName" :> Ann)),
                     JsonObject("details" :> JsonObject("candidateName" :> Bob)),
                     JsonObject(("candidateName" :> Ann) @@ ("agentPrompt" :> Bob)) } }

\* bool(value)
Truthy(v) ==
    CASE v.t = "num" -> v.n # 0
      [] v.t = "str" -> v.s # <<>>
      [] v.t = "list" -> v.items # <<>>
      [] v.t = "object" -> DOMAIN v.obj # {}
      [] OTHER -> FALSE

\* value.get(key, default): only a dict has the attribute
DictGet(v, key, default) ==
    IF v.t = "object" THEN Return(Get(v.obj, key, default)) ELSE Raise("AttributeError")

\* "details" in value
DetailsIn(v) ==
    CASE v.t = "object" -> Return("details" \in DOMAIN v.obj)
      [] v.t = "str" -> Return(Contains(Details, v.s))
      [] v.t = "list" ->
             Return(\E k \in DOMAIN v.items :
                        v.items[k].t = "str" /\ v.items[k].s = Details)
      [] OTHER -> Raise("TypeError")

\* value["details"]
DetailsOf(v) ==
    IF v.t = "object" THEN Return(v.obj["details"]) ELSE Raise("TypeError")

\* extract_candidate_details, first try block: what ctx.job.metadata gives.
\* metadata is bound as soon as json.loads returns, before .get is called on it.
FromJobMetadata(job) ==
    IF job.t \in { "empty", "invalid" }
    THEN [metadata |-> EmptyDict, candidate_details |-> EmptyDict]
    ELSE LET got == DictGet(job.value, "candidateDetails", EmptyDict)
         IN  [metadata |-> job.value,
              candidate_details |-> IF got.raised THEN EmptyDict ELSE got.value]

\* second try block, the fallback to ctx.room.metadata: metadata is bound after
\* room_metadata.get has returned.
FromRoomMetadata(found, room) ==
    IF Truthy(found.candidate_details) \/ room.t \in { "empty", "invalid" }
    THEN found
    ELSE LET got == DictGet(room.value, "candidateDetails", EmptyDict)
         IN  IF got.raised
             THEN found
             ELSE [metadata |-> room.value, candidate_details |-> got.value]

\* the nested details, looked up outside the try blocks
NestedDetails(found) ==
    IF Truthy(found.candidate_details)
    THEN Return(found)
    ELSE LET has == DetailsIn(found.metadata)
         IN  IF has.raised THEN has
             ELSE IF ~has.value THEN Return(found)
             ELSE LET details == DetailsOf(found.metadata)
                  IN  IF details.raised THEN details
                      ELSE Return([found EXCEPT !.candidate_details = details.value])

\* extract_candidate_details(ctx): (metadata, candidate_details), or the
\* exception that leaves it
extract_candidate_details(job, room) ==
    NestedDetails(FromRoomMetadata(FromJobMetadata(job), room))

\* a or b, on two expressions that may raise
OrElse(a, b) == IF a.raised THEN a ELSE IF Truthy(a.value) THEN a ELSE b

DefaultCandidateName == JsonStr(<<"Candidate">>)
DefaultJobTitle == JsonStr(<<"Position">>)
GenericPrompt ==
    JsonStr(<<"You are a professional AI interviewer conducting a job interview.">>)

\* metadata.get("jobDetails", {}).get("job_title")
JobDetailsTitle(metadata) ==
    LET job_details == DictGet(metadata, "jobDetails", EmptyDict)
    IN  IF job_details.raised THEN job_details
        ELSE DictGet(job_details.value, "job_title", JNull)

\* entrypoint from its start to agent_template.  The statements in between
\* (skills, experience, summary, projects, resume analysis) read
\* candidate_details with .get and change none of the three results.
entrypoint(job, room) ==
    LET extracted == extract_candidate_details(job, room)
    IN  IF extracted.raised THEN extracted
        ELSE LET metadata == extracted.value.metadata
                 candidate_details == extracted.value.candidate_details
                 candidate_name ==
                     OrElse(DictGet(candidate_details, "candidateName", JNull),
                     OrElse(DictGet(candidate_details, "candidate_name", JNull),
                     OrElse(DictGet(metadata, "candidateName", JNull),
                            Return(DefaultCandidateName))))
                 job_title ==
                     OrElse(DictGet(candidate_details, "jobTitle", JNull),
                     OrElse(DictGet(candidate_details, "job_title", JNull),
                     OrElse(DictGet(metadata, "jobTitle", JNull),
                     OrElse(JobDetailsTitle(metadata),
                            Return(DefaultJobTitle)))))
                 agent_template ==
                     OrElse(DictGet(metadata, "agentPrompt", JNull),
                     OrElse(DictGet(candidate_details, "agentPrompt", JNull),
                     OrElse(DictGet(candidate_details, "agent_prompt", JNull),
                            Return(GenericPrompt))))
             IN  IF candidate_name.raised THEN candidate_name
                 ELSE IF job_title.raised THEN job_title
                 ELSE IF agent_template.raised THEN agent_template
                 ELSE Return([candidate_name |-> candidate_name.value,
                              job_title |-> job_title.value,
                              agent_template |-> agent_template.value])

\* A job is dispatched with its metadata and the room's: entrypoint runs to
\* agent_template, or an exception ends it.
Entrypoint(job, room) ==
    /\ session = NotStarted
    /\ session' =
           LET start == entrypoint(job, room)
           IN  IF start.raised
               THEN [status |-> "aborted", job_metadata |-> job,
                     room_metadata |-> room, exc |-> start.exc]
               ELSE [status |-> "started", job_metadata |-> job,
                     room_metadata |-> room,
                     candidate_name |-> start.value.candidate_name,
                     job_title |-> start.value.job_title,
                     agent_template |-> start.value.agent_template]
    /\ UNCHANGED <<tasks, last_question, question_count, responses, trackerVars,
                   published, transcript_buffer, monitor, posted, lifecycleVars,
                   waiting_for_answer>>

(***************************************************************************)
(* Specification                                                           *)
(***************************************************************************)

\* Everything as the constructors leave it.
Constructed ==
    /\ evaluation_history = <<>>
    /\ pc = "idle"
    /\ call = NoCall
    /\ response = NoResponse
    /\ ret = NoReturn
    /\ started = 0
    /\ completed = 0
    /\ clock = 0
    /\ summaries = <<>>
    /\ room_id = NoRoom
    /\ http_response = NoHttpResponse
    /\ candidate_details_store = [room \in Rooms |-> NoCandidateData]
    /\ candidate_details_events = [room \in Rooms |-> 0]
    /\ events = <<>>
    /\ token_requests = <<>>
    /\ tasks = <<>>
    /\ last_question = NoQuestion
    /\ question_count = 0
    /\ responses = <<>>
    /\ tracker = NewTracker(0)
    /\ question_num = 0
    /\ current_stats = NoStats
    /\ transcript_ref = NoTranscript
    /\ published = <<>>
    /\ transcript_buffer = <<>>
    /\ monitor = Watching
    /\ session = NotStarted
    /\ posted = NoPost
    /\ waiting_for_answer = FALSE

\* The session once on_enter has run: evaluator and tracker are there and the
\* candidate was greeted.
Init ==
    /\ Constructed
    /\ interview_started = TRUE
    /\ greeting_sent = TRUE
    /\ greetings = 1
    /\ on_enter = <<[pc |-> "done", at |-> 0]>>

Next ==
    \/ /\ \E c \in Calls : EvaluateAnswerBegin(c)
       /\ UNCHANGED <<summaries, serverVars, agentVars>>
    \/ /\ \E outcome \in ModelOutcomes : EvaluateAnswerResume(outcome)
       /\ UNCHANGED <<summaries, serverVars, agentVars>>

Spec == Init /\ [][Next]_vars

(***************************************************************************)
(* One evaluator over a session: evaluations and summaries interleaved     *)
(***************************************************************************)

\* The call the interview agent makes: no expected keywords, "medium".
SessionCalls ==
    { [question |-> "Q1", answer |-> a, expected_keywords |-> NoneKeywords,
       difficulty_level |-> "medium"] : a \in {AnswerAcid, AnswerPadded} }

SessionOutcomes ==
    { [kind |-> "raise", exc |-> "APIError"],
      [kind |-> "return", content |-> [t |-> "invalid"]] }
    \cup { [kind |-> "return", content |-> [t |-> "object", obj |-> o]] :
             o \in {ObjectGood, ObjectAbove, ObjectEmpty} }

NextSession ==
    \/ /\ \E c \in SessionCalls : EvaluateAnswerBegin(c)
       /\ UNCHANGED <<summaries, serverVars, agentVars>>
    \/ /\ \E outcome \in SessionOutcomes : EvaluateAnswerResume(outcome)
       /\ UNCHANGED <<summaries, serverVars, agentVars>>
    \/ CalculateOverallPerformance /\ UNCHANGED <<serverVars, agentVars>>

SpecSession == Init /\ [][NextSession]_vars

(***************************************************************************)
(* The summary over histories of any content                               *)
(***************************************************************************)

\* Bound: entries of a history the summary is computed over.
MaxHistory == 10

\* An evaluation as the model grades it: the flags follow the score.
Graded(score, accuracy, technical, communication) ==
    [is_correct |-> score >= 70, is_partial |-> score >= 50 /\ score < 70,
     score |-> Num(score),
     evaluation |-> [accuracy |-> accuracy, completeness |-> accuracy,
                     relevance |-> accuracy, confidence |-> "medium"],
     feedback |-> "ok", technical_depth |-> technical,
     communication_quality |-> communication]

\* Scores and sub-scores on both sides of every threshold of the summary.
GradedObjects ==
    { Graded(80, 80, 75, 75), Graded(79, 79, 74, 74), Graded(65, 60, 60, 60),
      Graded(64, 59, 59, 59), Graded(50, 50, 50, 50), Graded(49, 49, 49, 49) }

HistoryOutcomes ==
    { [kind |-> "return", content |-> [t |-> "invalid"]] }
    \cup { [kind |-> "return", content |-> [t |-> "object", obj |-> o]] :
             o \in GradedObjects \cup {ObjectGood, ObjectAbove, ObjectBelow, ObjectEmpty} }

HistoryCall ==
    [question |-> "Q1", answer |-> AnswerAcid, expected_keywords |-> NoneKeywords,
     difficulty_level |-> "medium"]

\* The history after i calls answered by outcome a and then j calls answered by
\* outcome b.
HistoryOf(a, i, b, j) ==
    [k \in 1..(i + j) |->
        EvaluateAnswerEnd(HistoryCall, IF k <= i THEN a ELSE b, k - 1).value]

\* round(x, 1) is taken of a binary float. Off an exact tie in the second decimal
\* it gives what rounding the exact quotient gives. On a tie it does so when
\* every intermediate value is exact in binary (scores that are multiples of
\* 0.5; means over 1, 2, 4 or 8 entries); elsewhere the float's error decides
\* the digit, and such histories are left out.
Tie(num, den) == (2 * num) % (2 * den) = den

ExactInBinary(history) ==
    LET n == Len(history)
    IN  IF n = 0 THEN TRUE
        ELSE /\ \/ \A i \in DOMAIN history : ScoreOf(history[i]) % 5 = 0
                \/ ~Tie(10 * total_score_sum(history), n)
             /\ \/ n \in {1, 2, 4, 8}
                \/ ~Tie(10 * (SumAccuracy(history) + SumTechnical(history)), 2 * n)

\* The evaluator after i + j evaluate_answer calls, all of them ended.
InitAgg ==
    \E a \in HistoryOutcomes, b \in HistoryOutcomes, i \in 0..MaxHistory, j \in 0..MaxHistory :
        /\ i + j <= MaxHistory
        /\ ExactInBinary(HistoryOf(a, i, b, j))
        /\ evaluation_history = HistoryOf(a, i, b, j)
        /\ pc = "idle"
        /\ call = IF i + j = 0 THEN NoCall ELSE HistoryCall
        /\ response = IF i + j = 0 THEN NoResponse ELSE IF j = 0 THEN a ELSE b
        /\ ret = IF i + j = 0 THEN NoReturn
                 ELSE EvaluateAnswerEnd(HistoryCall, IF j = 0 THEN a ELSE b, i + j - 1)
        /\ started = i + j
        /\ completed = i + j
        /\ clock = i + j
        /\ summaries = <<>>
        /\ room_id = NoRoom
        /\ http_response = NoHttpResponse
        /\ candidate_details_store = [room \in Rooms |-> NoCandidateData]
        /\ candidate_details_events = [room \in Rooms |-> 0]
        /\ events = <<>>
        /\ token_requests = <<>>
        /\ tasks = <<>>
        /\ last_question = NoQuestion
        /\ question_count = 0
        /\ responses = <<>>
        /\ tracker = NewTracker(0)
        /\ question_num = 0
        /\ current_stats = NoStats
        /\ transcript_ref = NoTranscript
        /\ published = <<>>
        /\ transcript_buffer = <<>>
        /\ monitor = Watching
        /\ session = NotStarted
        /\ posted = NoPost
        /\ interview_started = TRUE
        /\ greeting_sent = TRUE
        /\ greetings = 1
        /\ on_enter = <<[pc |-> "done", at |-> 0]>>
        /\ waiting_for_answer = FALSE

NextAgg == CalculateOverallPerformance /\ UNCHANGED <<serverVars, agentVars>>

SpecAgg == InitAgg /\ [][NextAgg]_vars

(***************************************************************************)
(* The server: requests for several rooms                                  *)
(***************************************************************************)

NextServer ==
    \/ /\ \E room \in Rooms, c \in SessionCalls : PostEvaluateAnswerBegin(room, c)
       /\ UNCHANGED <<summaries, agentVars, tokenVars>>
    \/ /\ \E outcome \in SessionOutcomes : PostEvaluateAnswerEnd(outcome)
       /\ UNCHANGED <<summaries, agentVars, tokenVars>>
    \/ /\ \E room \in Rooms : PostCompleteInterview(room)
       /\ UNCHANGED <<summaries, agentVars, tokenVars>>
    \/ /\ \E room \in Rooms : GetInterviewStats(room)
       /\ UNCHANGED <<summaries, agentVars, tokenVars>>

SpecServer == Init /\ [][NextServer]_vars

(***************************************************************************)
(* /token requests and the arrival of candidate details                    *)
(***************************************************************************)

NextToken ==
    \/ /\ \E room \in Rooms, candidateDetails \in {NoCandidateData, CandidateAnn} :
             PostToken(room, candidateDetails)
       /\ UNCHANGED <<evaluatorVars, summaries, agentVars>>
    \/ /\ \E i \in DOMAIN token_requests : PostTokenWoken(i)
       /\ UNCHANGED <<evaluatorVars, summaries, agentVars>>
    \/ /\ \E i \in DOMAIN token_requests : PostTokenTimeout(i)
       /\ UNCHANGED <<evaluatorVars, summaries, agentVars>>
    \/ /\ \E room \in Rooms, data \in {CandidateAnn, CandidateBob} :
             PostCandidateDetails(room, data)
       /\ UNCHANGED <<evaluatorVars, summaries, agentVars>>

SpecToken == Init /\ [][NextToken]_vars

(***************************************************************************)
(* One InterviewTracker                                                    *)
(***************************************************************************)

NextTracker ==
    \/ /\ \E question \in {Question1, Question2} : AddQuestion(question)
       /\ UNCHANGED <<evaluatorVars, summaries, serverVars, tasks, last_question,
                      question_count, responses, published, transcript_buffer,
                      monitor, session, posted, lifecycleVars, waiting_for_answer>>
    \/ /\ \E answer \in {AnswerAcid}, evaluation \in {NoEvaluation, SomeEvaluation} :
             AddAnswer(answer, evaluation)
       /\ UNCHANGED <<evaluatorVars, summaries, serverVars, tasks, last_question,
                      question_count, responses, published, transcript_buffer,
                      monitor, session, posted, lifecycleVars, waiting_for_answer>>
    \/ /\ GetCurrentStats
       /\ UNCHANGED <<evaluatorVars, summaries, serverVars, tasks, last_question,
                      question_count, responses, published, transcript_buffer,
                      monitor, session, posted, lifecycleVars, waiting_for_answer>>
    \/ /\ GetTranscript
       /\ UNCHANGED <<evaluatorVars, summaries, serverVars, tasks, last_question,
                      question_count, responses, published, transcript_buffer,
                      monitor, session, posted, lifecycleVars, waiting_for_answer>>

SpecTracker == Init /\ [][NextTracker]_vars

(***************************************************************************)
(* The agent: transcripts and questions of one session                     *)
(***************************************************************************)

outsideSession == <<summaries, serverVars, session, lifecycleVars>>

\* Two transcripts may be in the handler at once; every notification goes out
\* and the participants stay.
NextAgent ==
    \/ /\ Len(tasks) < MaxTranscripts
       /\ \E text \in UserTranscripts : OnUserTranscriptEvent(text)
       /\ UNCHANGED outsideSession
    \/ /\ \E i \in DOMAIN tasks, outcome \in AgentOutcomes : HandleUserAnswerResume(i, outcome)
       /\ UNCHANGED outsideSession
    \/ /\ \E i \in DOMAIN tasks : HandleUserAnswerSent(i, "sent")
       /\ UNCHANGED outsideSession
    \/ /\ \E text \in AgentUtterances : HandleAgentQuestion(text, "sent")
       /\ UNCHANGED outsideSession

SpecAgent == Init /\ [][NextAgent]_vars

(***************************************************************************)
(* The agent: one answer at a time over a data channel that may fail       *)
(***************************************************************************)

\* Bound: final user transcripts delivered, one handled after the other.
MaxAnswers == 1

\* no answer is in the handler
Quiet == \A i \in DOMAIN tasks : tasks[i].pc = "done"

NextNotify ==
    \/ /\ Len(tasks) < MaxAnswers
       /\ Quiet
       /\ \E text \in {AnswerAcid, <<" ">>} : OnUserTranscriptEvent(text)
       /\ UNCHANGED outsideSession
    \/ /\ \E i \in DOMAIN tasks, outcome \in AgentOutcomes : HandleUserAnswerResume(i, outcome)
       /\ UNCHANGED outsideSession
    \/ /\ \E i \in DOMAIN tasks, outcome \in PublishOutcomes : HandleUserAnswerSent(i, outcome)
       /\ UNCHANGED outsideSession
    \/ /\ \E text \in {Question1, Question2, Statement} : HandleAgentQuestion(text, "sent")
       /\ UNCHANGED outsideSession

SpecNotify == Init /\ [][NextNotify]_vars

(***************************************************************************)
(* The agent: an interview up to its end, when the participants have left  *)
(* and the transcript is saved                                             *)
(***************************************************************************)

NextMonitor ==
    \/ /\ Len(tasks) < MaxAnswers
       /\ Quiet
       /\ OnUserTranscriptEvent(AnswerAcid)
       /\ UNCHANGED outsideSession
    \/ /\ \E i \in DOMAIN tasks, outcome \in AgentOutcomes : HandleUserAnswerResume(i, outcome)
       /\ UNCHANGED outsideSession
    \/ /\ \E i \in DOMAIN tasks : HandleUserAnswerSent(i, "sent")
       /\ UNCHANGED outsideSession
    \/ /\ \E text \in {Question1, Statement} : HandleAgentQuestion(text, "sent")
       /\ UNCHANGED outsideSession
    \/ /\ MonitorInterviewBegin
       /\ UNCHANGED outsideSession
    \/ /\ \E outcome \in PublishOutcomes, post \in PostOutcomes :
             MonitorInterviewEnd(outcome, post)
       /\ UNCHANGED outsideSession

SpecMonitor == Init /\ [][NextMonitor]_vars

(***************************************************************************)
(* Two sessions of one process, each with its TranscriptSaver              *)
(***************************************************************************)

\* what is said in the session of a saver: the two sessions say different things
SaidIn(saver) ==
    IF saver = SessionSaver
    THEN { <<"o", "n", "e">>, <<" ">> }
    ELSE { <<"t", "w", "o">> }

NextSavers ==
    \/ /\ \E saver \in {SessionSaver, OtherSaver}, speaker \in {"candidate", "agent"} :
             \E text \in SaidIn(saver) : SaverAddMessage(saver, speaker, text)
       /\ UNCHANGED <<evaluatorVars, summaries, serverVars, tasks, last_question,
                      question_count, responses, trackerVars, published, monitor,
                      session, lifecycleVars, waiting_for_answer>>
    \/ /\ \E saver \in {SessionSaver, OtherSaver}, outcome \in PostOutcomes :
             SaverSaveTranscript(saver, outcome)
       /\ UNCHANGED <<evaluatorVars, summaries, serverVars, tasks, last_question,
                      question_count, responses, trackerVars, published, monitor,
                      session, lifecycleVars, waiting_for_answer>>

SpecSavers == Init /\ [][NextSavers]_vars

(***************************************************************************)
(* The agent: on_enter, once and again                                     *)
(***************************************************************************)

\* The agent as constructed, before on_enter.
InitEnter ==
    /\ Constructed
    /\ interview_started = FALSE
    /\ greeting_sent = FALSE
    /\ greetings = 0
    /\ on_enter = <<>>

\* what on_enter and greet_candidate leave alone
besideEnter ==
    <<pc, call, response, ret, started, completed, clock, summaries, serverVars,
      tasks, last_question, question_count, responses, question_num, current_stats,
      transcript_ref, published, transcript_buffer, monitor, session, posted,
      waiting_for_answer>>

\* the evaluator and the tracker are used once on_enter has created them
NextEnter ==
    \/ OnEnter /\ UNCHANGED besideEnter
    \/ (\E i \in DOMAIN on_enter : OnEnterGreet(i)) /\ UNCHANGED besideEnter
    \/ GreetCandidate /\ UNCHANGED besideEnter
    \/ /\ interview_started
       /\ \E c \in { s \in SessionCalls : s.answer = AnswerAcid } : EvaluateAnswerBegin(c)
       /\ UNCHANGED <<summaries, serverVars, agentVars>>
    \/ /\ interview_started
       /\ \E outcome \in { o \in SessionOutcomes :
                               o.kind = "return" /\ o.content.t = "object" } :
             EvaluateAnswerResume(outcome)
       /\ UNCHANGED <<summaries, serverVars, agentVars>>
    \/ /\ interview_started
       /\ Len(tracker.transcript) < MaxEnters
       /\ AddQuestion(Question1)
       /\ UNCHANGED <<evaluatorVars, summaries, serverVars, tasks, last_question,
                      question_count, responses, published, transcript_buffer,
                      monitor, session, posted, lifecycleVars, waiting_for_answer>>
    \/ /\ interview_started
       /\ Len(tracker.transcript) < MaxEnters
       /\ AddAnswer(AnswerAcid, NoEvaluation)
       /\ UNCHANGED <<evaluatorVars, summaries, serverVars, tasks, last_question,
                      question_count, responses, published, transcript_buffer,
                      monitor, session, posted, lifecycleVars, waiting_for_answer>>

SpecEnter == InitEnter /\ [][NextEnter]_vars

(***************************************************************************)
(* The agent: the start of a session                                       *)
(***************************************************************************)

NextEntrypoint ==
    /\ \E job \in MetadataTexts, room \in MetadataTexts : Entrypoint(job, room)
    /\ UNCHANGED <<evaluatorVars, summaries, serverVars>>

SpecEntrypoint == Init /\ [][NextEntrypoint]_vars

(***************************************************************************)
(* Properties of evaluate_answer                                           *)
(***************************************************************************)

Returned == ret.outcome = "returned"

\* The call ended in _get_fallback_evaluation, from either of its two call sites.
UsedFallback == Returned /\ ret.path \in {"except", "unparsable"}

\* The arguments _get_fallback_evaluation was given: the call's own in the except
\* branch of evaluate_answer, the parser's fixed ones otherwise.
FallbackInput ==
    IF ret.path = "unparsable" THEN ParseFallbackArguments
    ELSE [question |-> call.question, answer |-> call.answer,
          expected_keywords |-> call.expected_keywords]

Range(seq) == { seq[i] : i \in 1..Len(seq) }

Abs(x) == IF x < 0 THEN -x ELSE x

\* C1: every evaluation evaluate_answer returns, and every entry of the history,
\* has 0 <= score <= 10, on the model path, the unparsable path and the except path.
C1_ScoreInRange ==
    /\ Returned => 0 <= ret.value.score /\ ret.value.score <= 100
    /\ \A i \in 1..Len(evaluation_history) :
           0 <= evaluation_history[i].score /\ evaluation_history[i].score <= 100

\* C1 witness: the model's response carried a score above 10 and the evaluation
\* returned from it has score 10.
C1_Witness_ClampedFromAbove ==
    /\ Returned /\ ret.path = "model"
    /\ "score" \in DOMAIN response.content.obj
    /\ response.content.obj.score.t = "num"
    /\ response.content.obj.score.n > 100
    /\ ret.value.score = 100

\* C2: in every returned evaluation is_correct implies score >= 7, is_partial
\* implies 5 <= score < 7, and the two flags are never both true.
C2_FlagsFollowScore ==
    Returned =>
        /\ ret.value.is_correct => ret.value.score >= 70
        /\ ret.value.is_partial => 50 <= ret.value.score /\ ret.value.score < 70
        /\ ~(ret.value.is_correct /\ ret.value.is_partial)

\* C3: evaluate_answer never ends by raising: whatever _call_openai raised or
\* returned, the call returns an evaluation.
C3_NeverPropagates ==
    /\ ret.outcome # "raised"
    /\ pc = "idle" /\ completed > 0 => Returned

\* C3 witness: the response was JSON but no object (the parser raised TypeError)
\* and the call returned an evaluation.
C3_Witness_NonObjectReturned ==
    /\ response.kind = "return"
    /\ response.content.t \in {"list", "number", "string", "null"}
    /\ Returned

\* C4: every completed call appended the evaluation it returned, so that
\* total_questions equals the number of completed calls.
C4_EveryCallAppends ==
    pc = "idle" =>
        /\ total_questions(evaluation_history) = completed
        /\ Returned =>
               /\ evaluation_history # <<>>
               /\ evaluation_history[Len(evaluation_history)] = ret.value

\* C5: on text that is no JSON the score is the fallback score of the call's own
\* answer and expected_keywords, as for a failed model call.
C5_UnparsableUsesCallInputs ==
    Returned /\ ret.path = "unparsable" =>
        ret.value.score =
            get_fallback_evaluation(call.question, call.answer,
                                    call.expected_keywords, clock).score

\* C6: when the fallback is given n > 0 keywords of which m occur in the answer
\* (case-insensitively, as substrings), the score is 10*m/n rounded to one
\* decimal, is_correct = (score >= 7), is_partial = (5 <= score < 7); with
\* [ACID, scalability] and an answer naming only ACID: 5.0, partial, not correct.
C6_KeywordFallbackScore ==
    UsedFallback /\ ~FallbackInput.expected_keywords.none
                 /\ FallbackInput.expected_keywords.items # <<>> =>
        LET e == ret.value
            kws == FallbackInput.expected_keywords.items
            n == Len(kws)
            m == Cardinality({ i \in 1..n :
                     Contains(Lower(kws[i]), Lower(FallbackInput.answer)) })
        IN  /\ 2 * Abs(e.score * n - 100 * m) <= n
            /\ e.is_correct = (e.score >= 70)
            /\ e.is_partial = (50 <= e.score /\ e.score < 70)
            /\ FallbackInput.answer = AnswerAcid /\ kws = <<ACID, scalability>> =>
                   e.score = 50 /\ e.is_partial /\ ~e.is_correct
            /\ FallbackInput.answer = AnswerBoth /\ kws = <<ACID, scalability, index>> =>
                   e.score = 67 /\ e.is_partial /\ ~e.is_correct

\* C6 witness: the model call raised, the keywords were [ACID, scalability], the
\* answer named only ACID, and the evaluation has score 5.0 and is partial.
C6_Witness_HalfMatched ==
    /\ Returned /\ ret.path = "except"
    /\ call.answer = AnswerAcid
    /\ call.expected_keywords = List(<<ACID, scalability>>)
    /\ ret.value.score = 50 /\ ret.value.is_partial

\* C7: when the fallback is given no keywords (None or []), the score is 6.0 if
\* the answer is longer than 20 characters after strip() and 3.0 otherwise (20
\* characters exactly, or an empty answer, give 3.0); it is never is_correct.
C7_LengthFallbackScore ==
    UsedFallback /\ (FallbackInput.expected_keywords.none
                     \/ FallbackInput.expected_keywords.items = <<>>) =>
        LET e == ret.value
            a == FallbackInput.answer
        IN  /\ e.score = IF Len(Strip(a)) > 20 THEN 60 ELSE 30
            /\ ~e.is_correct
            /\ a = <<>> => e.score = 30
            /\ a = AnswerPadded => e.score = 30
            /\ a = AnswerBoth => e.score = 60

\* C7 witness: the model call raised with no keywords and an answer of 20
\* characters inside whitespace; the score is 3.0.
C7_Witness_TwentyAfterStrip ==
    /\ Returned /\ ret.path = "except"
    /\ call.expected_keywords.none
    /\ call.answer = AnswerPadded
    /\ ret.value.score = 30

\* C8: for a call with a non-empty expected_keywords, keywords_matched and
\* keywords_missed of the returned evaluation are disjoint and their union is
\* the set of expected keywords.
C8_KeywordsPartition ==
    Returned /\ ~call.expected_keywords.none /\ call.expected_keywords.items # <<>> =>
        LET matched == Range(ret.value.keywords_matched)
            missed == Range(ret.value.keywords_missed)
        IN  /\ matched \cap missed = {}
            /\ matched \cup missed = Range(call.expected_keywords.items)

\* C9: a returned evaluation has fallback = true exactly when the fallback
\* produced it, and then has confidence "low" and the fixed feedback; one built
\* from a parsed model response is never marked fallback = true.
C9_FallbackFlagMarksFallback ==
    Returned =>
        LET e == ret.value
            marked == "fallback" \in DOMAIN e /\ e.fallback
        IN  /\ marked <=> UsedFallback
            /\ marked => e.evaluation.confidence = "low" /\ e.feedback = FallbackFeedback

\* C10: every returned evaluation carries the call's question and answer, a
\* timestamp, and the call's difficulty_level.
C10_MetadataAttached ==
    Returned =>
        LET e == ret.value
        IN  /\ e.question = call.question
            /\ e.answer = call.answer
            /\ "timestamp" \in DOMAIN e
            /\ "difficulty_level" \in DOMAIN e
            /\ e.difficulty_level = call.difficulty_level

\* C11: every returned evaluation holds the five sub-scores accuracy,
\* completeness, relevance (under "evaluation"), technical_depth and
\* communication_quality, each an integer in [0,100].
C11_SubScoresPresent ==
    Returned =>
        LET e == ret.value
        IN  /\ {"accuracy", "completeness", "relevance"} \subseteq DOMAIN e.evaluation
            /\ {"technical_depth", "communication_quality"} \subseteq DOMAIN e
            /\ \A k \in {"accuracy", "completeness", "relevance"} :
                   e.evaluation[k] \in 0..100
            /\ e.technical_depth \in 0..100
            /\ e.communication_quality \in 0..100

\* C12: a response that is a JSON object is not rejected: the evaluation is built
\* from it, every required field it lacks has the template's default, every
\* required field it holds keeps its value, and score is the clamped value.
C12_ObjectNotRejected ==
    response.kind = "return" /\ response.content.t = "object" =>
        LET obj == response.content.obj
        IN  /\ Returned /\ ret.path = "model"
            /\ \A k \in DOMAIN required_fields \ {"score"} :
                   /\ k \in DOMAIN ret.value
                   /\ ret.value[k] = IF k \in DOMAIN obj THEN obj[k] ELSE required_fields[k]
            /\ ret.value.score =
                   ClampScore(IF "score" \in DOMAIN obj THEN obj.score ELSE required_fields.score)

(***************************************************************************)
(* Properties of sessions                                                  *)
(***************************************************************************)

\* C13: evaluations of different interview sessions share no mutable state: when
\* an answer has been evaluated for one room, the stats and the final
\* performance reported for every other room are what they were before.
C13_RoomsShareNothing ==
    [][\A b \in Rooms :
          pc = "awaiting" /\ pc' = "idle" /\ room_id # b =>
              /\ get_interview_stats(b, evaluation_history')
                     = get_interview_stats(b, evaluation_history)
              /\ complete_interview(b, evaluation_history')
                     = complete_interview(b, evaluation_history)]_vars

\* C14: within one session at most one evaluate_answer call is in flight: no
\* two answer-handling tasks are suspended inside evaluate_answer at once.
C14_OneEvaluationInFlight ==
    Cardinality({ i \in DOMAIN tasks : tasks[i].pc = "awaiting" }) <= 1

(***************************************************************************)
(* Properties of the history and of calculate_overall_performance          *)
(***************************************************************************)

\* C15: evaluation_history is append-only: over every step of evaluate_answer
\* and of calculate_overall_performance the history before the step is a prefix
\* of the history after it.
C15_HistoryAppendOnly ==
    [][/\ Len(evaluation_history') >= Len(evaluation_history)
       /\ SubSeq(evaluation_history', 1, Len(evaluation_history)) = evaluation_history]_vars

\* Two evaluations were appended, with a summary computed between them.
C15_Witness_GrownAcrossSummary ==
    /\ Len(evaluation_history) = 2
    /\ \E k \in DOMAIN summaries : summaries[k].after = 1

\* C16: on an empty history calculate_overall_performance returns zero for
\* total_questions, correct_answers, wrong_answers, partial_answers,
\* average_score and total_score, and lists no strength and no weakness.
C16_EmptyHistorySummary ==
    evaluation_history = <<>> =>
        \A k \in DOMAIN summaries :
            LET p == summaries[k].value
            IN  /\ \A f \in {"total_questions", "correct_answers", "wrong_answers",
                             "partial_answers", "average_score", "total_score"} :
                       f \in DOMAIN p /\ p[f] = 0
                /\ \A f \in {"strengths", "weaknesses"} : f \in DOMAIN p => p[f] = <<>>

\* The summary was asked of an evaluator whose only evaluation so far failed and
\* left the history empty.
C16_Witness_SummaryOfNothing ==
    /\ evaluation_history = <<>>
    /\ \E k \in DOMAIN summaries : summaries[k].after = 1

\* C17: calculate_overall_performance is idempotent: a call leaves
\* evaluation_history as it was, and returns what the previous call returned
\* when no evaluate_answer call ended between the two.
C17_SummaryIdempotent ==
    [][Len(summaries') > Len(summaries) =>
          /\ evaluation_history' = evaluation_history
          /\ Len(summaries) > 0 /\ summaries[Len(summaries)].after = completed =>
                 summaries'[Len(summaries')].value = summaries[Len(summaries)].value]_vars

\* Two summaries of the same non-empty history.
C17_Witness_TwiceOnSameHistory ==
    /\ Len(summaries) = 2
    /\ summaries[1].after = summaries[2].after
    /\ evaluation_history # <<>>

\* C18: for a non-empty history, correct_answers + partial_answers +
\* wrong_answers = total_questions, total_questions is the length of the
\* history, correct_answers the number of entries with is_correct and
\* partial_answers the number of entries with is_partial.
C18_CountsAddUp ==
    evaluation_history # <<>> =>
        \A k \in DOMAIN summaries :
            LET p == summaries[k].value
            IN  /\ p.correct_answers + p.partial_answers + p.wrong_answers = p.total_questions
                /\ p.total_questions = Len(evaluation_history)
                /\ p.correct_answers =
                       Cardinality({ i \in DOMAIN evaluation_history :
                                       evaluation_history[i].is_correct })
                /\ p.partial_answers =
                       Cardinality({ i \in DOMAIN evaluation_history :
                                       evaluation_history[i].is_partial })

\* A summary of a history with correct, partial and neither-flagged answers.
C18_Witness_MixedHistory ==
    \E k \in DOMAIN summaries :
        /\ summaries[k].value.total_questions >= 3
        /\ summaries[k].value.partial_answers > 0
        /\ summaries[k].value.wrong_answers > 0

\* C19: for a non-empty history, average_score is the mean of the scores times
\* 10 rounded to one decimal (no tenth is nearer to it), total_score has the
\* same value, and the value is in [0,100].
C19_AverageScore ==
    evaluation_history # <<>> =>
        \A k \in DOMAIN summaries :
            LET p == summaries[k].value
                n == Len(evaluation_history)
                score_sum == SumSeq([i \in DOMAIN evaluation_history |->
                                        evaluation_history[i].score])
            IN  /\ 2 * Abs(p.average_score * n - 10 * score_sum) <= n
                /\ p.total_score = p.average_score
                /\ 0 <= p.average_score /\ p.average_score <= 1000

\* A mean that is no whole tenth and is rounded upwards.
C19_Witness_RoundedUp ==
    /\ evaluation_history # <<>>
    /\ \E k \in DOMAIN summaries :
          summaries[k].value.average_score * Len(evaluation_history)
              > 10 * SumSeq([i \in DOMAIN evaluation_history |-> evaluation_history[i].score])

\* C20: for a non-empty history the recommendation follows from average_score
\* alone, with inclusive lower bounds: >= 80 "Strongly recommend", >= 65
\* "Recommend", >= 50 "Consider ... with reservations", below 50 "Does not meet
\* current requirements".
C20_RecommendationTiers ==
    evaluation_history # <<>> =>
        \A k \in DOMAIN summaries :
            LET p == summaries[k].value
            IN  /\ p.average_score >= 800 <=> p.recommendation = StronglyRecommend
                /\ p.average_score >= 650 /\ p.average_score < 800
                       <=> p.recommendation = Recommend
                /\ p.average_score >= 500 /\ p.average_score < 650
                       <=> p.recommendation = ConsiderWithReservations
                /\ p.average_score < 500 <=> p.recommendation = DoesNotMeet

\* An average of 79.9, one tenth under the highest tier.
C20_Witness_JustBelowTier ==
    \E k \in DOMAIN summaries :
        /\ summaries[k].value.average_score = 799
        /\ summaries[k].value.recommendation = Recommend

\* The values of one field over the history, an absent field counting as 0.
FieldSum(field) ==
    SumSeq([i \in DOMAIN evaluation_history |->
               IF field \in DOMAIN evaluation_history[i]
               THEN evaluation_history[i][field] ELSE 0])

AccuracySum ==
    SumSeq([i \in DOMAIN evaluation_history |-> evaluation_history[i].evaluation.accuracy])

\* One category of C21: the strength is listed exactly when the mean reaches
\* the upper threshold, the weakness exactly when the mean is below 60.
CategoryListed(p, value_sum, threshold, strength, weakness) ==
    LET n == Len(evaluation_history)
    IN  /\ strength \in Range(p.strengths) <=> value_sum >= threshold * n
        /\ weakness \in Range(p.weaknesses) <=> value_sum < 60 * n
        /\ ~(strength \in Range(p.strengths) /\ weakness \in Range(p.weaknesses))

\* C21: for a non-empty history and each category (communication and technical
\* depth with upper threshold 75, accuracy with 80), the summary lists the
\* category's strength exactly when its mean reaches the upper threshold and
\* its weakness exactly when its mean is below 60; between the two it lists
\* neither, and never both.
C21_StrengthsAndWeaknesses ==
    evaluation_history # <<>> =>
        \A k \in DOMAIN summaries :
            LET p == summaries[k].value
            IN  /\ CategoryListed(p, FieldSum("communication_quality"), 75,
                                  "Strong communication skills",
                                  "Could improve communication clarity")
                /\ CategoryListed(p, FieldSum("technical_depth"), 75,
                                  "Good technical knowledge",
                                  "Needs to deepen technical understanding")
                /\ CategoryListed(p, AccuracySum, 80,
                                  "High accuracy in responses",
                                  "Could improve answer accuracy")

\* Every mean lies between its thresholds (communication at 74, accuracy at 79)
\* and the summary lists nothing.
C21_Witness_BetweenThresholds ==
    /\ evaluation_history # <<>>
    /\ FieldSum("communication_quality") = 74 * Len(evaluation_history)
    /\ AccuracySum = 79 * Len(evaluation_history)
    /\ \E k \in DOMAIN summaries :
          summaries[k].value.strengths = <<>> /\ summaries[k].value.weaknesses = <<>>

\* C22: for a non-empty history, metrics.response_rate is (correct_answers +
\* partial_answers) / total_questions * 100 and metrics.confidence_level is the
\* mean of the accuracy mean and the technical-depth mean (communication left
\* out), each as the code returns it, rounded to one decimal.
C22_ResponseRateAndConfidence ==
    evaluation_history # <<>> =>
        \A k \in DOMAIN summaries :
            LET p == summaries[k].value
                n == Len(evaluation_history)
            IN  /\ 2 * Abs(p.metrics.response_rate * n
                           - 1000 * (p.correct_answers + p.partial_answers)) <= n
                /\ Abs(p.metrics.confidence_level * 2 * n
                       - 10 * (AccuracySum + FieldSum("technical_depth"))) <= n

\* Some answers are neither correct nor partial, and the communication mean is
\* far from the accuracy and technical means.
C22_Witness_CommunicationApart ==
    /\ evaluation_history # <<>>
    /\ FieldSum("communication_quality")
           > FieldSum("technical_depth") + 20 * Len(evaluation_history)
    /\ \E k \in DOMAIN summaries :
          /\ summaries[k].value.metrics.response_rate > 0
          /\ summaries[k].value.metrics.response_rate < 1000

(***************************************************************************)
(* Properties of InterviewTracker                                          *)
(***************************************************************************)

\* The add_question calls made so far: each leaves one question entry.
QuestionEntries(transcript) ==
    Cardinality({ i \in DOMAIN transcript : transcript[i].type = "question" })

AnswerEntries(transcript) ==
    Cardinality({ i \in DOMAIN transcript : transcript[i].type = "answer" })

\* The step is a call of add_question.
QuestionAdded ==
    /\ Len(tracker'.transcript) = Len(tracker.transcript) + 1
    /\ tracker'.transcript[Len(tracker'.transcript)].type = "question"

\* C23: on a fresh tracker the k-th add_question call returns k, whatever
\* add_answer calls lie between, and get_current_stats reports as
\* questions_asked the number of add_question calls made so far.
C23_QuestionNumbers ==
    [][/\ QuestionAdded => question_num' = QuestionEntries(tracker.transcript) + 1
       /\ current_stats' # current_stats =>
              current_stats'.questions_asked = QuestionEntries(tracker'.transcript)]_vars

\* The second question, asked after an answer, got number 2 and the stats say 2.
C23_Witness_SecondAfterAnswer ==
    /\ question_num = 2
    /\ Len(tracker.transcript) = 3
    /\ tracker.transcript[2].type = "answer"
    /\ tracker.transcript[3].type = "question"
    /\ ~("none" \in DOMAIN current_stats)
    /\ current_stats.questions_asked = 2

\* C24: get_current_stats gives response_rate 0 when no question was asked,
\* also with answers already received, and otherwise answers_received /
\* questions_asked * 100 rounded to one decimal.
C24_TrackerResponseRate ==
    [][current_stats' # current_stats =>
          /\ tracker.questions_asked = 0 => current_stats'.response_rate = 0
          /\ tracker.questions_asked > 0 =>
                 2 * Abs(current_stats'.response_rate * tracker.questions_asked
                         - 1000 * tracker.answers_received) <= tracker.questions_asked]_vars

\* Stats taken with answers received and no question asked.
C24_Witness_AnswersWithoutQuestion ==
    /\ ~("none" \in DOMAIN current_stats)
    /\ current_stats.questions_asked = 0
    /\ current_stats.answers_received > 0
    /\ current_stats.response_rate = 0

\* C25: the transcript get_transcript returned is a snapshot: what is read
\* through it stays what it was when it was returned, whatever is added to the
\* tracker afterwards.
C25_TranscriptIsSnapshot ==
    transcript_ref.held => ReadTranscript(transcript_ref, tracker) = transcript_ref.seen

\* C26: the tracker's transcript is an ordered append-only log: every step leaves
\* the entries it had in place and unchanged, and adds at most one entry, at
\* the end.
C26_TranscriptAppendOnly ==
    [][/\ Len(tracker'.transcript) \in {Len(tracker.transcript), Len(tracker.transcript) + 1}
       /\ SubSeq(tracker'.transcript, 1, Len(tracker.transcript)) = tracker.transcript]_vars

\* question, answer, question, in the order of the calls
C26_Witness_QuestionAnswerQuestion ==
    /\ Len(tracker.transcript) = 3
    /\ tracker.transcript[1].type = "question" /\ tracker.transcript[1].content = Question1
    /\ tracker.transcript[2].type = "answer"
    /\ tracker.transcript[3].type = "question" /\ tracker.transcript[3].content = Question2

(***************************************************************************)
(* Properties of the agent's handlers                                      *)
(***************************************************************************)

\* the task of the transcript a step has just delivered
Delivered == Len(tasks') = Len(tasks) + 1

\* C27: when a non-empty answer is handled while no question has been recorded,
\* the tracker counts it and appends its answer entry, evaluation_history and
\* responses stay as they are, no evaluation is started, and the handler has
\* run to its end without an error.
C27_AnswerWithoutQuestion ==
    [][(Delivered /\ last_question.none) =>
           LET task == tasks'[Len(tasks')]
           IN  /\ tracker'.answers_received = tracker.answers_received + 1
               /\ Len(tracker'.transcript) = Len(tracker.transcript) + 1
               /\ tracker'.transcript[Len(tracker'.transcript)].type = "answer"
               /\ tracker'.transcript[Len(tracker'.transcript)].content = task.answer
               /\ SubSeq(tracker'.transcript, 1, Len(tracker.transcript))
                      = tracker.transcript
               /\ evaluation_history' = evaluation_history
               /\ responses' = responses
               /\ started' = started
               /\ task.pc = "done"
               /\ task.ret = NoReturn
               /\ task.sends = <<>>]_vars

\* An answer was handled before any question and nothing was evaluated.
C27_Witness_TrackedNotEvaluated ==
    /\ Len(tasks) = 1
    /\ tasks[1].pc = "done"
    /\ tasks[1].question.none
    /\ tracker.answers_received = 1
    /\ tracker.transcript[1].type = "answer"
    /\ evaluation_history = <<>>
    /\ responses = <<>>

\* the notification a handler sends after `sent` notifications have returned
NotificationAfter(sent) ==
    CASE sent = 0 -> "answer_evaluation"
      [] sent = 1 -> "response_analysis"
      [] sent = 2 -> "performance_update"
      [] OTHER -> "none"

\* C28: when publish_data ends for a notification of an answer, failed or not,
\* the sender returns without raising, evaluation_history and the tracker stay
\* as they are (the evaluation that was appended is in the history, the answer
\* in the tracker), the next notification is built and sent, and after the
\* third the question/answer/evaluation record is appended to responses.
C28_FailedSendUnwindsNothing ==
    [][\A i \in DOMAIN tasks :
           (tasks[i].pc = "sending" /\ tasks'[i] # tasks[i]) =>
               LET n == Len(tasks'[i].sends)
               IN  /\ n = Len(tasks[i].sends) + 1
                   /\ ~tasks'[i].sends[n].raised
                   /\ tasks'[i].sends[n].value = (published' # published)
                   /\ evaluation_history' = evaluation_history
                   /\ tasks[i].ret.appended =>
                          \E k \in DOMAIN evaluation_history' :
                              evaluation_history'[k] = tasks[i].ret.value
                   /\ tracker' = tracker
                   /\ \E k \in DOMAIN tracker'.transcript :
                          /\ tracker'.transcript[k].type = "answer"
                          /\ tracker'.transcript[k].content = tasks[i].answer
                   /\ tasks'[i].outbox.type = NotificationAfter(n)
                   /\ IF n < 3
                      THEN /\ tasks'[i].pc = "sending"
                           /\ responses' = responses
                      ELSE /\ tasks'[i].pc = "done"
                           /\ responses' =
                                  Append(responses,
                                         [question |-> last_question.text,
                                          answer |-> tasks[i].answer,
                                          evaluation |-> tasks[i].ret.value])]_vars

\* All three notifications of an answer failed; its evaluation is in the
\* history, the answer in the tracker and the record in responses.
C28_Witness_AllSendsFailed ==
    /\ Len(tasks) = 1
    /\ tasks[1].pc = "done"
    /\ tasks[1].sends = <<Return(FALSE), Return(FALSE), Return(FALSE)>>
    /\ Len(evaluation_history) = 1
    /\ tracker.answers_received = 1
    /\ Len(responses) = 1
    /\ responses[1].answer = tasks[1].answer

\* C29: when monitor_interview ends the interview, save_transcript returns
\* without raising; it returns True only for a non-empty buffer and a response
\* with status 200, and then the buffer is cleared; in every other case it
\* returns False and the buffer stays as it is.  The summary of
\* interview_complete is the one computed before the save, whatever the save
\* does.
C29_FailedSaveContained ==
    [][(monitor.pc = "sending" /\ monitor'.pc = "done") =>
           /\ ~monitor'.success.raised
           /\ monitor'.success.value = (monitor'.post = "200" /\ transcript_buffer # <<>>)
           /\ transcript_buffer' = IF monitor'.success.value THEN <<>> ELSE transcript_buffer
           /\ monitor'.performance = monitor.performance
           /\ monitor.outbox.type = "interview_complete"
           /\ monitor.outbox.performance = monitor.performance
           /\ published' \in { published, Append(published, monitor.outbox) }]_vars

\* The save ran into a connection error after an interview with one evaluated
\* answer: the buffer is kept and interview_complete went out with the summary.
C29_Witness_ConnectionErrorAtEnd ==
    /\ monitor.pc = "done"
    /\ monitor.post = "ConnectionError"
    /\ monitor.success = Return(FALSE)
    /\ transcript_buffer # <<>>
    /\ monitor.performance.total_questions = 1
    /\ \E k \in DOMAIN published :
           /\ published[k].type = "interview_complete"
           /\ published[k].performance = monitor.performance

(***************************************************************************)
(* Properties of the session's start                                       *)
(***************************************************************************)

\* text that cannot be parsed, or that parses to something other than an object
Malformed(text) ==
    \/ text.t = "invalid"
    \/ text.t = "json" /\ text.value.t # "object"

\* C30: when the job metadata and the room metadata are both malformed, the
\* session starts all the same, with the defaults: the name "Candidate", the
\* title "Position" and the generic interviewer prompt.
C30_MalformedMetadataDefaults ==
    (/\ session.status # "not started"
     /\ Malformed(session.job_metadata)
     /\ Malformed(session.room_metadata))
        => /\ session.status = "started"
           /\ session.candidate_name = DefaultCandidateName
           /\ session.job_title = DefaultJobTitle
           /\ session.agent_template = GenericPrompt

(***************************************************************************)
(* Properties of the agent under overlapping events                        *)
(***************************************************************************)

IsAnswerEntry(entry) == entry.type = "answer"

\* the number of the question that was current when the i-th answer arrived
QuestionNumberOfAnswer(i) ==
    SelectSeq(tracker.transcript, IsAnswerEntry)[i].question_number

\* C31: the answer_evaluation notification of an answer carries the number of
\* the question that was passed to evaluate_answer, and the record appended to
\* responses pairs the answer with that question, whatever the agent asked
\* while the evaluation was awaiting the model.
C31_RecordPairsAskedQuestion ==
    [][\A i \in DOMAIN tasks :
           /\ (tasks[i].pc = "awaiting" /\ tasks'[i].pc = "sending") =>
                  tasks'[i].outbox.question_number = QuestionNumberOfAnswer(i)
           /\ (tasks[i].pc = "sending" /\ tasks'[i].pc = "done"
                   /\ Len(responses') = Len(responses) + 1) =>
                  responses'[Len(responses')].question = tasks[i].question.text]_vars

\* the 'candidate' entries of the transcript buffer
CandidateEntries(buffer) ==
    Cardinality({ k \in DOMAIN buffer : buffer[k].sender = "candidate" })

\* C32: every final user utterance delivered by an event is recorded once: the
\* transcript buffer holds one 'candidate' entry per utterance, the tracker
\* one answer entry, and at most one evaluation was started for it.
C32_UtteranceRecordedOnce ==
    /\ CandidateEntries(transcript_buffer) = Len(tasks)
    /\ AnswerEntries(tracker.transcript) = Len(tasks)
    /\ tracker.answers_received = Len(tasks)
    /\ started <= Len(tasks)

(***************************************************************************)
(* Properties of the transcript buffer                                     *)
(***************************************************************************)

\* the messages of a buffer that were not said in the interview with this id
ForeignTo(interview_id, buffer) ==
    { k \in DOMAIN buffer :
        buffer[k].text \notin { Strip(text) : text \in SaidIn(IF interview_id = "inv1"
                                                             THEN SessionSaver
                                                             ELSE OtherSaver) } }

\* C33: the transcript a TranscriptSaver posts for its interview holds only
\* messages of that interview, and a save that clears the buffer discards no
\* message of another interview.
C33_TranscriptOfOneInterview ==
    [][/\ posted'.interview_id # "none" =>
              ForeignTo(posted'.interview_id, posted'.transcript) = {}
       /\ (transcript_buffer # <<>> /\ transcript_buffer' = <<>>) =>
              ForeignTo(posted'.interview_id, transcript_buffer) = {}]_vars

(***************************************************************************)
(* Properties of /token                                                    *)
(***************************************************************************)

\* request i stops waiting in this step
StopsWaiting(i) ==
    token_requests[i].pc = "waiting" /\ token_requests'[i].pc = "done"

\* C34: a /token request that waited and was woken by the arrival of its
\* room's candidate details completes with candidate details in the metadata
\* of its agent dispatch.
C34_WokenRequestCarriesDetails ==
    [][\A i \in DOMAIN token_requests :
           (StopsWaiting(i) /\ events[token_requests[i].event]) =>
               /\ token_requests'[i].response.status = 200
               /\ "candidateDetails" \in DOMAIN token_requests'[i].response.metadata]_vars

\* C35: a /token request whose wait for candidate details times out is
\* answered with status 409 and the detail 'Candidate details not yet
\* available...', and gets no token.
C35_TimeoutAnswered409 ==
    [][\A i \in DOMAIN token_requests :
           (StopsWaiting(i) /\ ~events[token_requests[i].event]) =>
               /\ token_requests'[i].response.status = 409
               /\ token_requests'[i].response.detail = NotAvailable
               /\ ~token_requests'[i].response.token]_vars

(***************************************************************************)
(* Ranges of the summary's counts                                          *)
(***************************************************************************)

\* C36: in every summary of a history evaluate_answer produced, correct_answers,
\* partial_answers and wrong_answers lie between 0 and total_questions, and
\* metrics.response_rate is at most 100 (1000 tenths).
C36_CountsWithinTotal ==
    \A k \in DOMAIN summaries :
        LET p == summaries[k].value
        IN  /\ \A f \in {"correct_answers", "partial_answers", "wrong_answers"} :
                   p[f] >= 0 /\ p[f] <= p.total_questions
            /\ "metrics" \in DOMAIN p => p.metrics.response_rate <= 1000

(***************************************************************************)
(* The tracker's transcript and its counters                               *)
(***************************************************************************)

\* the question entries of a transcript before position i
QuestionsBefore(transcript, i) ==
    Cardinality({ j \in 1..(i - 1) : transcript[j].type = "question" })

\* C37: the tracker's transcript agrees with its counters: as many question
\* entries as questions_asked, as many answer entries as answers_received,
\* question entries numbered 1, 2, ... in order, and every answer entry filed
\* under the number of question entries before it (0 if none).
C37_TranscriptAgreesWithCounters ==
    /\ QuestionEntries(tracker.transcript) = tracker.questions_asked
    /\ AnswerEntries(tracker.transcript) = tracker.answers_received
    /\ \A i \in DOMAIN tracker.transcript :
           LET entry == tracker.transcript[i]
           IN  IF entry.type = "question"
               THEN entry.number = QuestionsBefore(tracker.transcript, i) + 1
               ELSE entry.question_number = QuestionsBefore(tracker.transcript, i)

\* An answer before any question, then question, answer, question.
C37_Witness_AnswersBetweenQuestions ==
    /\ Len(tracker.transcript) = 4
    /\ tracker.transcript[1].type = "answer" /\ tracker.transcript[1].question_number = 0
    /\ tracker.transcript[2].type = "question" /\ tracker.transcript[2].number = 1
    /\ tracker.transcript[3].type = "answer" /\ tracker.transcript[3].question_number = 1
    /\ tracker.transcript[4].type = "question" /\ tracker.transcript[4].number = 2
    /\ tracker.questions_asked = 2 /\ tracker.answers_received = 2

(***************************************************************************)
(* What handling an agent utterance changes                                *)
(***************************************************************************)

\* the step handles an agent utterance: it is in the buffer twice more
AgentUtteranceHandled ==
    AgentEntries(transcript_buffer') = AgentEntries(transcript_buffer) + 2

\* the utterance the step has handled, as the buffer holds it
UtteranceHandled == transcript_buffer'[Len(transcript_buffer')].text

\* C38: handling an agent utterance that does not end with '?' leaves
\* last_question, question_count, waiting_for_answer and the tracker unchanged and
\* publishes nothing; handling one that ends with '?' makes it the last
\* question, sets waiting_for_answer and increases question_count and the
\* tracker's questions_asked by one each, the two counters staying equal.
C38_OnlyQuestionsCount ==
    [][AgentUtteranceHandled =>
          IF EndsWithQuestionMark(UtteranceHandled)
          THEN /\ last_question' = [none |-> FALSE, text |-> UtteranceHandled]
               /\ waiting_for_answer'
               /\ question_count' = question_count + 1
               /\ tracker'.questions_asked = tracker.questions_asked + 1
               /\ question_count' = tracker'.questions_asked
          ELSE /\ UNCHANGED <<last_question, question_count, waiting_for_answer, tracker>>
               /\ published' = published]_vars

\* A statement was handled after a question: the buffer holds both, each twice,
\* and one question is counted.
C38_Witness_StatementAfterQuestion ==
    /\ AgentEntries(transcript_buffer) = 4
    /\ transcript_buffer[Len(transcript_buffer)].text = Statement
    /\ question_count = 1
    /\ tracker.questions_asked = 1
    /\ last_question.text = Question1
    /\ waiting_for_answer

(***************************************************************************)
(* on_enter is one-shot                                                    *)
(***************************************************************************)

\* C39: once on_enter has set the session up, no further call of on_enter or
\* greet_candidate replaces the evaluator or the tracker (the evaluation history
\* and the tracker's transcript keep what they had) or greets a second time.
C39_EnterOnce ==
    [][/\ interview_started =>
              /\ interview_started'
              /\ Len(evaluation_history') >= Len(evaluation_history)
              /\ SubSeq(evaluation_history', 1, Len(evaluation_history)) = evaluation_history
              /\ tracker'.start_time = tracker.start_time
              /\ Len(tracker'.transcript) >= Len(tracker.transcript)
              /\ SubSeq(tracker'.transcript, 1, Len(tracker.transcript)) = tracker.transcript
       /\ greetings' <= 1]_vars

\* on_enter was called again after an evaluation and a tracker entry had been
\* recorded, and both are still there; one greeting was made.
C39_Witness_EnteredTwice ==
    /\ Len(on_enter) = 2
    /\ on_enter[1].pc = "done" /\ on_enter[2].pc = "done"
    /\ completed >= 1 /\ Len(evaluation_history) = completed
    /\ on_enter[2].at >= 1
    /\ tracker.transcript # <<>>
    /\ tracker.transcript[1].timestamp < on_enter[2].at
    /\ greetings = 1

====
